---------------------------- MODULE Spec2Model ----------------------------
(***************************************************************************)
(* Past-papers scraper: discovery of candidate papers, the dedup-and-fetch *)
(* orchestrator, and the pipeline runs that feed the blob store and the    *)
(* record store.                                                           *)
(*                                                                         *)
(* The specifications share the variables below:                           *)
(*   SpecDiscover  one scrapePapers call of a discoverer                   *)
(*   SpecIngest    batchStorePdfs calls on one candidate list              *)
(*   Spec          whole pipeline runs (CLI run / worker processScrapeJob) *)
(*   SpecEnrich    one batch of the embeddings service                     *)
(*   SpecPersist   one persist stage over storage and embedding results    *)
(*   SpecUpdate    vector backfill of stored records                       *)
(*   SpecApi       requests to the job worker's HTTP interface             *)
(*   SpecResume    progress tracking across interrupted runs               *)
(*   SpecCodec     one call of a function of the metadata codec            *)
(*   SpecLimiter   pacing of the vectorizer requests                       *)
(*   SpecRetry     one run of a retry loop                                 *)
(*   SpecInsert    insertPaper calls on a table with every column          *)
(*   SpecJob       background jobs of the job worker, with fairness        *)
(***************************************************************************)
EXTENDS Integers, Sequences, FiniteSets, TLC

(***************************************************************************)
(* Bounds of the model.                                                    *)
(***************************************************************************)
\* year-folder links the root page can hold
MaxFolders == 2
\* candidate papers the source site offers (candidate lists are drawn from these)
MaxPapers == 3
\* largest configured concurrency of the storage service
MaxConcurrency == 2
\* batchStorePdfs calls made on the same candidate list
MaxCalls == 2

(***************************************************************************)
(* Program constants.                                                      *)
(***************************************************************************)
\* ScraperConfig.maxRetries: attempts of fetchWithRetry
maxRetries == 3
\* PdfStorageConfig.maxRetries: attempts of retryOperation
pdfMaxRetries == 3
\* configured year window of the discoverer (endYear <= year <= startYear)
endYear == 2020
startYear == 2024

VARIABLES
    \* ---- discovery (scrapePapers) ----
    scraper,      \* which discoverer runs: "papa" | "pastpapers"
    subjectUrl,   \* the subject URL scrapePapers is called with
    dpc,          \* position in scrapePapers
    yearUrls,     \* year tokens of the folder URLs taken from the root page
    yearIdx,      \* index of the folder being processed
    attempt,      \* attempt number of the fetch in progress
    pages,        \* pages[i]: the links of folder i's page, once fetched
    allPapers,    \* candidates collected so far
    requests,     \* every page request issued: 0 = root page, i = folder i
    failedYears,  \* folders whose page could not be fetched
    derr,         \* why scrapePapers threw ("none" while it has not)
    waited,       \* folders after whose page delay(delayMs) was awaited
    \* ---- stores ----
    blob,         \* storage keys present in the blob store (R2)
    db,           \* rows of the record store (past_papers table)
    \* ---- ingest (batchStorePdfs / storePdf) ----
    papers,       \* the candidate list handed to batchStorePdfs
    skipIfExists, \* option of the call
    concurrency,  \* PdfStorageConfig.concurrency
    ipc,          \* position in batchStorePdfs
    calls,        \* batchStorePdfs calls begun so far
    batchStart,   \* loop variable i (1-based)
    mpc,          \* mpc[k]: position of storePdf for papers[k]
    attempts,     \* attempts[k]: attempt number inside retryOperation
    fetches,      \* fetches[k]: download requests issued for papers[k] in this call
    lookup,       \* lookup[k]: what the existence check of this call answered
    payload,      \* payload[k]: what the latest download attempt ended in
    outcome,      \* outcome[k]: the StorageResult storePdf resolved with
    results,      \* results array of the call in progress
    prevOk,       \* members whose outcome in the previous call was a success
    \* ---- pipeline runs ----
    variant,      \* "cli" (PastPapersScraperApp.run), "worker" (processScrapeJob
                  \* of the complete pipeline) or "job" (processScrapeJob of the
                  \* job worker); "none" when no pipeline runs
    ppc,          \* position in the run
    runs,         \* runs begun so far
    site,         \* the candidates the source site offers
    scraped,      \* scrapedPapers / papers: what discovery returned
    queue,        \* newPapers, then papersToProcess
    pidx,         \* loop index of the stage in progress
    wresults,     \* storageResults of the worker pipeline
    embeddingResults, \* embeddingResults: one entry per item handed to enrichment
    dbResults,    \* databaseResults
    stages,       \* stages of this run, in the order of their first operation
    jobStatus,    \* status of the job in the JOB_STATUS store
    downloads,    \* downloads[u]: fetches of candidate u's downloadUrl in this run
    \* ---- enrichment (batchGenerateEmbeddings / generateEmbeddings) ----
    stored,       \* document types of the newly stored papers of the run
    items,        \* the list handed to the embeddings service
    epc,          \* position in the batch call of the embeddings service
    ebatchStart,  \* loop variable i (1-based)
    estate,       \* estate[k]: position of generateEmbedding for items[k]
    eattempts,    \* eattempts[k]: attempt number inside generateEmbeddingWithRetry
    eout,         \* eout[k]: the EmbeddingResult generateEmbedding resolved with
    eresults,     \* results array of the batch call
    vcalls,       \* every request sent to the vectorizer: the item it was for
    now,          \* the clock (new Date(), Date.now())
    JOB_STATUS,   \* the JOB_STATUS store: job id -> status of the job
    background,   \* jobs handed to ctx.waitUntil that have not settled
    posted,       \* scrape requests accepted so far
    responses,    \* the responses sent, in order
    progressFiles,\* the .progress directory: session id -> processedPapers of the saved state
    sessionId,    \* session id of the tracker of the run in progress
    processedPapers,\* state.processedPapers of that tracker
    submitted,    \* submitted[r]: the papers run r handed to batchStorePdfs
    interrupted,  \* interrupted[r]: what run r had recorded as processed when it was killed
    fn,           \* the function under call ("none" when no call is modelled)
    args,         \* its arguments
    returned,     \* whether it has returned or thrown
    ret,          \* what it returned, once it has
    requestTimes, \* EmbeddingsService.requestTimes: times of the recorded requests
    issued,       \* the time of every request the vectorizer received, retries included
    lpc,          \* position of the embedding run
    texts,        \* number of papers handed to the embedding run
    lidx,         \* index of the paper (worker: first paper of the batch) in hand
    tries,        \* attempt of generateEmbeddingWithRetry
    wakeAt,       \* time at which the pending delay() resolves
    unanswered,   \* worker: requests of the batch still unanswered
    rattempt,     \* loop variable attempt of a retry loop
    waits,        \* the delays a retry loop has awaited, in ms
    caught,       \* jobs whose processScrapeJob is in its catch block
    unrecorded    \* jobs that ended while the write of their final status threw

dvars == <<scraper, subjectUrl, dpc, yearUrls, yearIdx, attempt, pages, allPapers,
           requests, failedYears, derr, waited>>

svars == <<blob, db>>

ivars == <<papers, skipIfExists, concurrency, ipc, calls, batchStart, mpc,
           attempts, fetches, lookup, payload, outcome, results, prevOk>>

pvars == <<variant, ppc, runs, site, scraped, queue, pidx, wresults, embeddingResults,
           dbResults, stages, jobStatus, downloads>>

evars == <<stored, items, epc, ebatchStart, estate, eattempts, eout, eresults,
           vcalls>>

clockVars == <<now>>

apiVars == <<JOB_STATUS, background, posted, responses>>

progressVars == <<progressFiles, sessionId, processedPapers, submitted,
           interrupted>>

callVars == <<fn, args, returned, ret>>

limiterVars == <<requestTimes, issued, lpc, texts, lidx, tries, wakeAt,
           unanswered>>

retryVars == <<rattempt, waits>>

jobVars == <<caught, unrecorded>>

xvars == <<clockVars, apiVars, progressVars, callVars, limiterVars,
           retryVars, jobVars>>

exceptClock == <<dvars, evars, apiVars, progressVars, callVars, limiterVars,
           retryVars, jobVars>>

exceptApi == <<dvars, evars, clockVars, progressVars, callVars, limiterVars,
           retryVars, jobVars>>

exceptProgress == <<dvars, evars, clockVars, apiVars, callVars, limiterVars,
           retryVars, jobVars>>

exceptCall == <<dvars, evars, clockVars, apiVars, progressVars, limiterVars,
           retryVars, jobVars>>

exceptLimiter == <<dvars, evars, clockVars, apiVars, progressVars, callVars,
           retryVars, jobVars>>

exceptRetry == <<dvars, evars, clockVars, apiVars, progressVars, callVars,
           limiterVars, jobVars>>

exceptJob == <<dvars, evars, clockVars, apiVars, progressVars, callVars,
           limiterVars, retryVars>>

vars == <<dvars, svars, ivars, pvars, evars, xvars>>

\* what a discovery step leaves alone, and what an ingest step leaves alone
nonDiscovery == <<svars, ivars, pvars, evars, xvars>>
nonIngest == <<dvars, db, pvars, evars, xvars>>

(***************************************************************************)
(* Discovery: PapaCambridgeScraper.scrapePapers and, for the second site,  *)
(* PastPapersScraper.scrapePapers.                                         *)
(***************************************************************************)

\* A year-folder URL is represented by the first 4-digit token that the
\* pattern (19[89]\d|20[0-3]\d) finds in it; 0 stands for "no such token"
\* (extractYearUrls of the CLI scraper matches the link TEXT, so the href it
\* keeps need not carry a year).
NoYear == 0
YearTokens == {NoYear, 2019, 2020, 2022, 2024, 2025, 2031}

\* A folder page is the sequence of its PDF links; a link is TRUE when the
\* paper identity can be built from it and FALSE when building it throws.
Pages == { <<>>, <<TRUE>>, <<TRUE, TRUE>>, <<TRUE, FALSE>>, <<FALSE, TRUE>> }

\* createPaperMetadata of the CLI scraper falls back to defaults and never
\* throws; parsePaperUrl of the second site throws on a link it cannot parse
PagesOf(s) ==
    IF s = "pastpapers" THEN Pages
    ELSE { page \in Pages : \A k \in 1..Len(page) : page[k] }

RECURSIVE SeqsUpTo(_, _)
SeqsUpTo(S, n) ==
    IF n = 0 THEN { <<>> }
    ELSE LET shorter == SeqsUpTo(S, n - 1)
         IN  shorter \cup { Append(s, x) : s \in shorter, x \in S }

\* parseYearFromUrl: throws when no year token is found or the year is
\* outside [1980, 2030]; otherwise returns the year.
parseYearThrows(tok) == tok = NoYear \/ tok < 1980 \/ tok > 2030

\* a range filter that drops the two boundary years
outsideRangeExclusive(year) == year <= endYear \/ year >= startYear

\* the range filter of scrapePapers: both bounds inclusive
outsideRange(year) == year < endYear \/ year > startYear

\* isRelevantSessionDirectory of the second site: the range filter is applied
\* while the root page is read, and a directory without a year is dropped.
isRelevantSessionDirectory(tok) ==
    tok # NoYear /\ tok >= endYear /\ tok <= startYear

\* the candidates a fetched page contributes: one per link whose identity
\* can be built, in page order (the inner try/catch drops the others)
RECURSIVE pagePapersFrom(_, _, _)
pagePapersFrom(i, page, k) ==
    IF k > Len(page) THEN <<>>
    ELSE (IF page[k] THEN << [folder |-> i, link |-> k] >> ELSE <<>>)
         \o pagePapersFrom(i, page, k + 1)

\* a page loop without the inner try/catch: it ends at the first link whose
\* identity cannot be built
RECURSIVE pagePapersUntilFailure(_, _, _)
pagePapersUntilFailure(i, page, k) ==
    IF k > Len(page) \/ ~page[k] THEN <<>>
    ELSE << [folder |-> i, link |-> k] >> \o pagePapersUntilFailure(i, page, k + 1)

pagePapersAborting(i, page) == pagePapersUntilFailure(i, page, 1)

pagePapers(i, page) == pagePapersFrom(i, page, 1)

firstAttempt(s) == IF s = "pastpapers" THEN 0 ELSE 1

\* A subject URL is represented by its host and by the last path segment,
\* split at '-' into parts that are lowercase letters, other text, or digits.
SegShapes ==
    { <<"lower", "lower", "digits">>, <<"other", "lower", "digits">>,
      <<"lower", "digits">>, <<"lower", "lower", "lower">> }

SubjectUrls == [host : {"pastpapers.co", "elsewhere"}, seg : SegShapes]

\* parseSubjectUrl: the last path segment must match ^([a-z]+)-(.+)-(\d+)$
parseSubjectUrlThrows(url) ==
    ~ /\ Len(url.seg) >= 3
      /\ url.seg[1] = "lower"
      /\ url.seg[Len(url.seg)] = "digits"

\* isValidPastPapersUrl: the URL parses and its hostname is pastpapers.co
isValidPastPapersUrl(url) == url.host = "pastpapers.co"

\* a scrapePapers that takes every subject URL to the page fetcher
subjectUrlNeverRejected(s, url) == FALSE

\* the check scrapePapers makes of its argument before anything else
subjectUrlRejected(s, url) ==
    IF s = "pastpapers" THEN ~isValidPastPapersUrl(url)
    ELSE parseSubjectUrlThrows(url)

\* scrapePapers entry: parseSubjectUrl / isValidPastPapersUrl. A malformed
\* subject URL throws before anything is fetched.
ParseSubject ==
    /\ dpc = "start"
    /\   IF ~subjectUrlRejected(scraper, subjectUrl)
         THEN /\ dpc' = "root"
              /\ attempt' = firstAttempt(scraper)
              /\ derr' = derr
         ELSE /\ dpc' = "failed"
              /\ derr' = "subjectUrl"
              /\ attempt' = attempt
    /\ UNCHANGED <<scraper, subjectUrl, yearUrls, yearIdx, pages, allPapers, requests,
                   failedYears, waited>>
    /\ UNCHANGED nonDiscovery

\* one attempt of fetchWithRetry failed and another one is left
RetryFetch ==
    /\ dpc \in {"root", "yearFetch"}
    /\ attempt < maxRetries
    /\ attempt' = attempt + 1
    /\ requests' = Append(requests, IF dpc = "root" THEN 0 ELSE yearIdx)
    /\ UNCHANGED <<scraper, subjectUrl, dpc, yearUrls, yearIdx, pages, allPapers,
                   failedYears, derr, waited>>
    /\ UNCHANGED nonDiscovery

\* what scrapePapers keeps of the root page's folder links
keptFolders(s, links) ==
    IF s = "pastpapers"
    THEN SelectSeq(links, isRelevantSessionDirectory)
    ELSE links

\* the root page arrives: extractYearUrls / discoverDirectories
RootFetched ==
    /\ dpc = "root"
    /\ \E links \in SeqsUpTo(YearTokens, MaxFolders) :
         /\ yearUrls' = keptFolders(scraper, links)
         /\ pages' = [i \in 1..Len(keptFolders(scraper, links)) |-> <<>>]
    /\ requests' = Append(requests, 0)
    /\ dpc' = "year"
    /\ yearIdx' = 1
    /\ UNCHANGED <<scraper, subjectUrl, attempt, allPapers, failedYears, derr, waited>>
    /\ UNCHANGED nonDiscovery

\* the outcome of a root fetch whose every attempt failed: the CLI scraper
\* lets the error out of scrapePapers; discoverDirectories of the second site
\* catches it and returns [], so scrapePapers returns an empty list.
rootFailurePc(s) == IF s = "pastpapers" THEN "done" ELSE "failed"

RootFetchFails ==
    /\ dpc = "root"
    /\ attempt = maxRetries
    /\ requests' = Append(requests, 0)
    /\ dpc' = rootFailurePc(scraper)
    /\ derr' = "rootFetch"
    /\ UNCHANGED <<scraper, subjectUrl, yearUrls, yearIdx, attempt, pages, allPapers,
                   failedYears, waited>>
    /\ UNCHANGED nonDiscovery

\* where an unparseable year-folder URL takes scrapePapers: parseYearFromUrl
\* is called outside the per-year try block, so the error leaves the call.
yearParseFailurePc == "failed"

\* top of the per-year loop: parse the folder URL, apply the range filter
NextYear ==
    /\ dpc = "year"
    /\ IF yearIdx > Len(yearUrls)
       THEN /\ dpc' = "done"
            /\ UNCHANGED <<yearIdx, attempt, derr>>
       ELSE IF scraper = "papa" /\ parseYearThrows(yearUrls[yearIdx])
       THEN /\ dpc' = yearParseFailurePc
            /\ derr' = "yearParse"
            /\ yearIdx' = IF yearParseFailurePc = "failed"
                          THEN yearIdx ELSE yearIdx + 1
            /\ UNCHANGED attempt
       ELSE IF scraper = "papa" /\ outsideRange(yearUrls[yearIdx])
       THEN /\ yearIdx' = yearIdx + 1
            /\ UNCHANGED <<dpc, attempt, derr>>
       ELSE /\ dpc' = "yearFetch"
            /\ attempt' = firstAttempt(scraper)
            /\ UNCHANGED <<yearIdx, derr>>
    /\ UNCHANGED <<scraper, subjectUrl, yearUrls, pages, allPapers, requests, failedYears,
                   waited>>
    /\ UNCHANGED nonDiscovery

\* the year page arrives: extractPaperUrls, then one identity per link, then
\* delay(delayMs) before the loop goes on
YearFetched ==
    /\ dpc = "yearFetch"
    /\ \E page \in PagesOf(scraper) :
         /\ pages' = [pages EXCEPT ![yearIdx] = page]
         /\ allPapers' = allPapers \o pagePapers(yearIdx, page)
    /\ requests' = Append(requests, yearIdx)
    /\ waited' = Append(waited, yearIdx)
    /\ dpc' = "year"
    /\ yearIdx' = yearIdx + 1
    /\ UNCHANGED <<scraper, subjectUrl, yearUrls, attempt, failedYears, derr>>
    /\ UNCHANGED nonDiscovery

\* where a year page whose every fetch attempt failed takes scrapePapers:
\* the per-year catch logs it and the loop goes on with the next folder.
yearFetchFailurePc == "year"

YearFetchFails ==
    /\ dpc = "yearFetch"
    /\ attempt = maxRetries
    /\ requests' = Append(requests, yearIdx)
    /\ failedYears' = failedYears \cup {yearIdx}
    /\ dpc' = yearFetchFailurePc
    /\ yearIdx' = IF yearFetchFailurePc = "year" THEN yearIdx + 1 ELSE yearIdx
    /\ derr' = IF yearFetchFailurePc = "year" THEN derr ELSE "yearFetch"
    /\ UNCHANGED <<scraper, subjectUrl, yearUrls, attempt, pages, allPapers, waited>>
    /\ UNCHANGED nonDiscovery

DNext ==
    \/ ParseSubject
    \/ RetryFetch
    \/ RootFetched
    \/ RootFetchFails
    \/ NextYear
    \/ YearFetched
    \/ YearFetchFails

(***************************************************************************)
(* Strings: a string is the sequence of its characters.                    *)
(***************************************************************************)
Digit == {"0", "1", "2", "3", "4", "5", "6", "7", "8", "9"}

lowerLetters ==
    <<"a", "b", "c", "d", "e", "f", "g", "h", "i", "j", "k", "l", "m",
      "n", "o", "p", "q", "r", "s", "t", "u", "v", "w", "x", "y", "z">>

upperLetters ==
    <<"A", "B", "C", "D", "E", "F", "G", "H", "I", "J", "K", "L", "M",
      "N", "O", "P", "Q", "R", "S", "T", "U", "V", "W", "X", "Y", "Z">>

Lower == { lowerLetters[i] : i \in 1..26 }
Upper == { upperLetters[i] : i \in 1..26 }

\* String.prototype.toLowerCase
toLowerCase(s) ==
    [k \in 1..Len(s) |->
        IF s[k] \in Upper
        THEN lowerLetters[CHOOSE i \in 1..26 : upperLetters[i] = s[k]]
        ELSE s[k]]

\* a regular expression X+ over the character class S, anchored at both ends
allIn(s, S) == s # <<>> /\ \A k \in 1..Len(s) : s[k] \in S

\* String.prototype.includes
includes(s, sub) ==
    \E i \in 0..(Len(s) - Len(sub)) : SubSeq(s, i + 1, i + Len(sub)) = sub

\* String.prototype.endsWith
endsWith(s, suffix) ==
    Len(s) >= Len(suffix) /\ SubSeq(s, Len(s) - Len(suffix) + 1, Len(s)) = suffix

\* String.prototype.split on a one-character separator
RECURSIVE split(_, _)
split(s, sep) ==
    IF \A k \in 1..Len(s) : s[k] # sep THEN <<s>>
    ELSE LET k == CHOOSE j \in 1..Len(s) :
                      s[j] = sep /\ \A h \in 1..(j - 1) : s[h] # sep
         IN  <<SubSeq(s, 1, k - 1)>> \o split(SubSeq(s, k + 1, Len(s)), sep)

\* Array.prototype.join with a one-character separator
RECURSIVE join(_, _)
join(parts, sep) ==
    IF parts = <<>> THEN <<>>
    ELSE IF Len(parts) = 1 THEN parts[1]
    ELSE parts[1] \o <<sep>> \o join(Tail(parts), sep)

\* s.replace(/[\/\\]/g, '-')
replaceSlashes(s) ==
    [k \in 1..Len(s) |-> IF s[k] \in {"/", "\\"} THEN "-" ELSE s[k]]

(***************************************************************************)
(* Ingest: PdfStorageService.batchStorePdfs and storePdf.                  *)
(***************************************************************************)

\* the candidate papers of the source site, by URL
PaperIds == 1..MaxPapers

\* the natural key (board, level, subject, year, session, paper, type) a
\* candidate's metadata carries; candidate 3 is a second URL of candidate 1's
\* paper
naturalKey(u) == IF u = 3 THEN 1 ELSE u

\* ScraperStorageManager: hasPastPaper and storePastPaper build the same
\* storage key from the natural key
r2Key(u) == <<"past-papers", naturalKey(u)>>

\* candidate lists: discovery returns each URL at most once, in site order
CandLists ==
    { s \in SeqsUpTo(PaperIds, MaxPapers) :
        \A a, b \in 1..Len(s) : a < b => s[a] < s[b] }

\* what one download attempt can end in: a body of valid size, an empty
\* body, a body above maxFileSizeMB, a 4xx status other than 429, a 429, a 5xx
\* status, or a network error (timeout, connection reset)
DownloadOutcomes ==
    {"ok", "empty", "tooLarge", "http4xx", "http429", "http5xx", "network"}

Unresolved == [success |-> FALSE, skipped |-> FALSE, error |-> "unresolved"]
Stored     == [success |-> TRUE,  skipped |-> FALSE, error |-> "none"]
Skipped    == [success |-> TRUE,  skipped |-> TRUE,  error |-> "none"]
Failure(e) == [success |-> FALSE, skipped |-> FALSE, error |-> e]

members == 1..Len(papers)

\* the slice papers.slice(i, i + concurrency) of the batch loop
batchSlice(start, n, c) == { k \in 1..n : start <= k /\ k < start + c }

batch == batchSlice(batchStart, Len(papers), concurrency)

\* a loop that goes on as soon as one member has resolved (Promise.race)
batchResolvedAny(ms) == \E k \in ms : mpc[k] = "done"

\* Promise.all(batchPromises) resolves when every member has resolved
batchResolved(ms) == \A k \in ms : mpc[k] = "done"

\* a storePdf that downloads before it looks
firstStepDownload(skip) == "download"

\* the existence check of storePdf comes first when skipIfExists is set
firstStep(skip) == IF skip THEN "check" ELSE "download"

\* batchStorePdfs is called: results = [], i = 0
BeginCall ==
    /\ \/ ppc = "none" /\ ipc \in {"idle", "returned"} /\ calls < MaxCalls
       \/ ppc = "ingest" /\ ipc = "idle"
    /\ calls' = calls + 1
    /\ prevOk' = { k \in DOMAIN outcome : outcome[k].success }
    /\ results' = <<>>
    /\ batchStart' = 1
    /\ mpc' = [k \in members |-> "idle"]
    /\ attempts' = [k \in members |-> 0]
    /\ fetches' = [k \in members |-> 0]
    /\ lookup' = [k \in members |-> "none"]
    /\ payload' = [k \in members |-> "none"]
    /\ outcome' = [k \in members |-> Unresolved]
    /\ ipc' = "loop"
    /\ stages' = IF ppc = "ingest" THEN Append(stages, "ingest") ELSE stages
    /\ UNCHANGED <<papers, skipIfExists, concurrency, blob, db>>
    /\ UNCHANGED <<variant, ppc, runs, site, scraped, queue, pidx, wresults,
                   embeddingResults, dbResults, jobStatus, downloads>>
    /\ UNCHANGED <<evars, xvars, dvars>>

\* loop test fails: return results
ReturnResults ==
    /\ ipc = "loop"
    /\ batchStart > Len(papers)
    /\ ipc' = "returned"
    /\ UNCHANGED <<papers, skipIfExists, concurrency, calls, batchStart, mpc,
                   attempts, fetches, lookup, payload, outcome, results,
                   prevOk, blob>>
    /\ UNCHANGED nonIngest

\* batch.map(storePdf): every member of the slice is started; storePdf runs
\* up to its first await
StartBatch ==
    /\ ipc = "loop"
    /\ batchStart <= Len(papers)
    /\ mpc' = [k \in members |->
                 IF k \in batch THEN firstStep(skipIfExists) ELSE mpc[k]]
    /\ attempts' = [k \in members |->
                 IF k \in batch /\ firstStep(skipIfExists) = "download"
                 THEN 1 ELSE attempts[k]]
    /\ ipc' = "batch"
    /\ UNCHANGED <<papers, skipIfExists, concurrency, calls, batchStart,
                   fetches, lookup, payload, outcome, results, prevOk, blob>>
    /\ UNCHANGED nonIngest


\* storePdf, first await: hasPastPaper. R2StorageClient.exists answers false
\* on 404 and rethrows every other error, which storePdf's catch turns into a
\* failure outcome.
CheckExists(k) ==
    /\ ipc = "batch"
    /\ mpc[k] = "check"
    /\ \E fault \in BOOLEAN :
         IF fault
         THEN /\ lookup' = [lookup EXCEPT ![k] = "error"]
              /\ outcome' = [outcome EXCEPT ![k] = Failure("lookup")]
              /\ mpc' = [mpc EXCEPT ![k] = "done"]
              /\ UNCHANGED attempts
         ELSE IF r2Key(papers[k]) \in blob
         THEN /\ lookup' = [lookup EXCEPT ![k] = "present"]
              /\ outcome' = [outcome EXCEPT ![k] = Skipped]
              /\ mpc' = [mpc EXCEPT ![k] = "done"]
              /\ UNCHANGED attempts
         ELSE /\ lookup' = [lookup EXCEPT ![k] = "absent"]
              /\ mpc' = [mpc EXCEPT ![k] = "download"]
              /\ attempts' = [attempts EXCEPT ![k] = 1]
              /\ UNCHANGED outcome
    /\ UNCHANGED <<papers, skipIfExists, concurrency, ipc, calls, batchStart,
                   fetches, payload, results, prevOk, blob>>
    /\ UNCHANGED nonIngest

\* retryOperation: a thrown error is retried while attempts are left,
\* whatever the error is
retryLeft(n) == n < pdfMaxRetries

\* a download attempt that resolves with a buffer; every other outcome is an
\* error thrown inside retryOperation: axios rejects a status outside 2xx and
\* a body above maxContentLength, downloadWithStream rejects when the bytes
\* read exceed maxFileSizeMB
resolvesWithBuffer(r) == r \in {"ok", "empty"}

\* one attempt of downloadPdfWithRetry, then the size validation of storePdf.
\* An empty buffer fails the validation, which is outside retryOperation.
DownloadAttempt(k) ==
    /\ ipc = "batch"
    /\ mpc[k] = "download"
    /\ fetches' = [fetches EXCEPT ![k] = fetches[k] + 1]
    /\ \E r \in DownloadOutcomes :
         /\ payload' = [payload EXCEPT ![k] = r]
         /\ IF r = "ok"
            THEN /\ mpc' = [mpc EXCEPT ![k] = "put"]
                 /\ UNCHANGED <<attempts, outcome>>
            ELSE IF resolvesWithBuffer(r)
            THEN /\ mpc' = [mpc EXCEPT ![k] = "done"]
                 /\ outcome' = [outcome EXCEPT ![k] = Failure(r)]
                 /\ UNCHANGED attempts
            ELSE IF retryLeft(attempts[k])
            THEN /\ attempts' = [attempts EXCEPT ![k] = attempts[k] + 1]
                 /\ UNCHANGED <<mpc, outcome>>
            ELSE /\ mpc' = [mpc EXCEPT ![k] = "done"]
                 /\ outcome' = [outcome EXCEPT ![k] = Failure(r)]
                 /\ UNCHANGED attempts
    /\ UNCHANGED <<papers, skipIfExists, concurrency, ipc, calls, batchStart,
                   lookup, results, prevOk, blob>>
    /\ UNCHANGED nonIngest

\* storePastPaper: the upload either lands under the storage key or throws
PutBlob(k) ==
    /\ ipc = "batch"
    /\ mpc[k] = "put"
    /\ \E uploaded \in BOOLEAN :
         IF uploaded
         THEN /\ blob' = blob \cup {r2Key(papers[k])}
              /\ outcome' = [outcome EXCEPT ![k] = Stored]
         ELSE /\ blob' = blob
              /\ outcome' = [outcome EXCEPT ![k] = Failure("upload")]
    /\ mpc' = [mpc EXCEPT ![k] = "done"]
    /\ UNCHANGED <<papers, skipIfExists, concurrency, ipc, calls, batchStart,
                   attempts, fetches, lookup, payload, results, prevOk>>
    /\ UNCHANGED nonIngest

\* a batch whose first failing member rejects the whole Promise.all: the
\* outcomes from that member on are lost
RECURSIVE batchResultsUntilFailure(_, _)
batchResultsUntilFailure(k, last) ==
    IF k > last \/ ~outcome[k].success THEN <<>>
    ELSE << [paper |-> papers[k], result |-> outcome[k]] >>
         \o batchResultsUntilFailure(k + 1, last)

\* the outcomes of a batch's members, in input order
RECURSIVE batchResults(_, _)
batchResults(k, last) ==
    IF k > last THEN <<>>
    ELSE << [paper |-> papers[k], result |-> outcome[k]] >>
         \o batchResults(k + 1, last)

lastOf(ms) == IF ms = {} THEN 0 ELSE CHOOSE k \in ms : \A j \in ms : j <= k

\* await Promise.all(batchPromises); results.push(...batchResults);
\* i += concurrency
FinishBatch ==
    /\ ipc = "batch"
    /\ batchResolved(batch)
    /\ results' = results \o batchResults(batchStart, lastOf(batch))
    /\ batchStart' = batchStart + concurrency
    /\ ipc' = IF batchStart + concurrency <= Len(papers) THEN "delay" ELSE "loop"
    /\ UNCHANGED <<papers, skipIfExists, concurrency, calls, mpc, attempts,
                   fetches, lookup, payload, outcome, prevOk, blob>>
    /\ UNCHANGED nonIngest

\* delay(1000) between batches
BatchDelay ==
    /\ ipc = "delay"
    /\ ipc' = "loop"
    /\ UNCHANGED <<papers, skipIfExists, concurrency, calls, batchStart, mpc,
                   attempts, fetches, lookup, payload, outcome, results,
                   prevOk, blob>>
    /\ UNCHANGED nonIngest

INext ==
    \/ BeginCall
    \/ ReturnResults
    \/ StartBatch
    \/ \E k \in members : CheckExists(k)
    \/ \E k \in members : DownloadAttempt(k)
    \/ \E k \in members : PutBlob(k)
    \/ FinishBatch
    \/ BatchDelay

(***************************************************************************)
(* Enrichment: step 3 of run() with EmbeddingsService.batchGenerateEmbeddings*)
(* (CLI), step 4 of processScrapeJob with                                  *)
(* WorkersEmbeddingService.generateEmbeddings (worker pipeline).           *)
(***************************************************************************)

\* newly stored papers of one run
MaxItems == 3

\* EmbeddingsConfig.maxRetries: attempts of generateEmbeddingWithRetry
embedMaxRetries == 3
\* EmbeddingsConfig.batchSize / batchSize of generateEmbeddings
embedBatchSize == 10
\* length of a text-embedding-3-small vector
embeddingDimension == 1536
\* a length the vectorizer could answer with instead
wrongDimension == 768

\* document types of the stored papers
DocTypes == {"qp", "ms", "gt"}

\* a vector is represented by its length and by what its entries are: all
\* finite numbers, some entry that is no number (NaN, null, text), or some
\* infinite entry
Vec(len, vals) == [len |-> len, vals |-> vals]

NoVector == Vec(0, "none")

Vectors ==
    { Vec(embeddingDimension, "finite"), Vec(wrongDimension, "finite"),
      Vec(embeddingDimension, "notNumber"), Vec(embeddingDimension, "infinite") }

\* what one request to the vectorizer ends in: an error (status, timeout,
\* no data) or a response that carries a vector
VectorizerResponses ==
    { [ok |-> FALSE, vector |-> NoVector] } \cup { [ok |-> TRUE, vector |-> v] : v \in Vectors }

EmbeddingSuccess(v) == [success |-> TRUE, vector |-> v]
EmbeddingFailure    == [success |-> FALSE, vector |-> NoVector]
EmbeddingPending    == [success |-> FALSE, vector |-> Vec(0, "pending")]

\* what the pipeline hands to the embeddings service: run() keeps the items
\* whose type is qp or ms, processScrapeJob maps every stored result
enrichFilter(v, types) ==
    IF v = "cli" THEN SelectSeq(types, LAMBDA t : t \in {"qp", "ms"})
    ELSE types

eitems == 1..Len(items)

\* the pipeline reaches the embeddings step: nothing is called when nothing
\* was newly stored
EnrichBegin ==
    /\ ppc = "none"
    /\ epc = "idle"
    /\ items' = IF stored = <<>> THEN <<>> ELSE enrichFilter(variant, stored)
    /\ epc' = IF stored = <<>> THEN "returned" ELSE "loop"
    /\ ebatchStart' = 1
    /\ estate' = [k \in 1..Len(items') |-> "idle"]
    /\ eattempts' = [k \in 1..Len(items') |-> 0]
    /\ eout' = [k \in 1..Len(items') |-> EmbeddingPending]
    /\ eresults' = <<>>
    /\ UNCHANGED <<stored, vcalls>>
    /\ UNCHANGED <<xvars, dvars, svars, ivars, pvars>>

\* the members batch.map(generateEmbedding) starts at once
ebatch == { k \in eitems : ebatchStart <= k /\ k < ebatchStart + embedBatchSize }

RECURSIVE indexSeq(_, _)
indexSeq(a, b) == IF a > b THEN <<>> ELSE <<a>> \o indexSeq(a + 1, b)

\* batchGenerateEmbeddings: "for (const {metadata} of batch) await
\* generateEmbedding(metadata)": the next item's first request is sent
EmbedStart ==
    /\ ppc = "none"
    /\ variant = "cli"
    /\ epc = "loop"
    /\ ebatchStart <= Len(items)
    /\ estate[ebatchStart] = "idle"
    /\ estate' = [estate EXCEPT ![ebatchStart] = "inflight"]
    /\ eattempts' = [eattempts EXCEPT ![ebatchStart] = 1]
    /\ vcalls' = Append(vcalls, ebatchStart)
    /\ UNCHANGED <<stored, items, epc, ebatchStart, eout, eresults>>
    /\ UNCHANGED <<xvars, dvars, svars, ivars, pvars>>

\* generateEmbeddings of the worker: batch.map(generateEmbedding) sends the
\* request of every member of the slice before anything is awaited
EmbedBatchStart ==
    /\ ppc = "none"
    /\ variant = "worker"
    /\ epc = "loop"
    /\ ebatchStart <= Len(items)
    /\ estate' = [k \in eitems |-> IF k \in ebatch THEN "inflight" ELSE estate[k]]
    /\ eattempts' = [k \in eitems |-> IF k \in ebatch THEN 1 ELSE eattempts[k]]
    /\ vcalls' = vcalls \o indexSeq(ebatchStart, lastOf(ebatch))
    /\ epc' = "batch"
    /\ UNCHANGED <<stored, items, ebatchStart, eout, eresults>>
    /\ UNCHANGED <<xvars, dvars, svars, ivars, pvars>>

\* whether generateEmbedding takes the vector of a response as a success:
\* the worker service checks the length, the CLI service returns what
\* response.data[0].embedding holds
vectorAccepted(v, vec) == v = "cli" \/ vec.len = embeddingDimension

\* attempts one generateEmbedding call may make: the worker service makes one
permittedAttempts(v) == IF v = "cli" THEN embedMaxRetries ELSE 1

\* the answer to the request in flight for items[k] arrives
EmbedResponse(k) ==
    /\ ppc = "none"
    /\ estate[k] = "inflight"
    /\ \E r \in VectorizerResponses :
         IF r.ok /\ vectorAccepted(variant, r.vector)
         THEN /\ eout' = [eout EXCEPT ![k] = EmbeddingSuccess(r.vector)]
              /\ estate' = [estate EXCEPT ![k] = "done"]
              /\ UNCHANGED <<eattempts, vcalls>>
         ELSE IF ~r.ok /\ eattempts[k] < permittedAttempts(variant)
         THEN /\ eattempts' = [eattempts EXCEPT ![k] = eattempts[k] + 1]
              /\ vcalls' = Append(vcalls, k)
              /\ UNCHANGED <<eout, estate>>
         ELSE /\ eout' = [eout EXCEPT ![k] = EmbeddingFailure]
              /\ estate' = [estate EXCEPT ![k] = "done"]
              /\ UNCHANGED <<eattempts, vcalls>>
    /\ UNCHANGED <<stored, items, epc, ebatchStart, eresults>>
    /\ UNCHANGED <<xvars, dvars, svars, ivars, pvars>>

\* a batch call that gives up at the first item that failed
afterEmbeddingStopOnFailure(out) == IF out.success THEN "loop" ELSE "returned"

\* generateEmbedding never rejects: the loop goes on whatever the result
afterEmbedding(out) == "loop"

\* the await on generateEmbedding resumes: results.push(result)
EmbedCollect ==
    /\ ppc = "none"
    /\ variant = "cli"
    /\ epc = "loop"
    /\ ebatchStart <= Len(items)
    /\ estate[ebatchStart] = "done"
    /\ eresults' = Append(eresults, eout[ebatchStart])
    /\ ebatchStart' = ebatchStart + 1
    /\ epc' = afterEmbedding(eout[ebatchStart])
    /\ UNCHANGED <<stored, items, estate, eattempts, eout, vcalls>>
    /\ UNCHANGED <<xvars, dvars, svars, ivars, pvars>>

RECURSIVE outSeq(_, _)
outSeq(a, b) == IF a > b THEN <<>> ELSE <<eout[a]>> \o outSeq(a + 1, b)

\* await Promise.all(batchPromises); results.push(...batchResults)
EmbedBatchFinish ==
    /\ ppc = "none"
    /\ variant = "worker"
    /\ epc = "batch"
    /\ \A k \in ebatch : estate[k] = "done"
    /\ eresults' = eresults \o outSeq(ebatchStart, lastOf(ebatch))
    /\ ebatchStart' = ebatchStart + embedBatchSize
    /\ epc' = "loop"
    /\ UNCHANGED <<stored, items, estate, eattempts, eout, vcalls>>
    /\ UNCHANGED <<xvars, dvars, svars, ivars, pvars>>

\* the loop test fails: return results
EnrichReturn ==
    /\ ppc = "none"
    /\ epc = "loop"
    /\ ebatchStart > Len(items)
    /\ epc' = "returned"
    /\ UNCHANGED <<stored, items, ebatchStart, estate, eattempts, eout,
                   eresults, vcalls>>
    /\ UNCHANGED <<xvars, dvars, svars, ivars, pvars>>

ENext ==
    \/ EnrichBegin
    \/ EmbedStart
    \/ EmbedBatchStart
    \/ \E k \in eitems : EmbedResponse(k)
    \/ EmbedCollect
    \/ EmbedBatchFinish
    \/ EnrichReturn

(***************************************************************************)
(* Pipeline runs: PastPapersScraperApp.run (CLI), processScrapeJob of the  *)
(* complete pipeline (worker) and processScrapeJob of the job worker.      *)
(***************************************************************************)

\* pipeline runs begun on the same subject URL
MaxRuns == 2

\* config.maxPapers default of the worker pipeline
maxPapers == 50

\* document type of a candidate: candidate 2 is an examiner report
paperType(u) == IF u = 2 THEN "er" ELSE "qp"

\* rows of past_papers: a serial id and the natural key columns; the table
\* declares no unique constraint over the natural key
Row(id, u, emb) ==
    [id |-> id, key |-> naturalKey(u), embedding |-> emb]

dbKeys == { r.key : r \in db }

ingestVarsIdle ==
    /\ ipc' = "idle"
    /\ UNCHANGED <<skipIfExists, concurrency, calls, batchStart, mpc, attempts,
                   fetches, lookup, payload, outcome, results, prevOk>>

\* run() is entered / the scrape request is accepted
StartRun ==
    /\ ppc \in {"idle", "completed", "failed"}
    /\ runs < MaxRuns
    /\ runs' = runs + 1
    /\ ppc' = "discover"
    /\ scraped' = <<>>
    /\ queue' = <<>>
    /\ pidx' = 0
    /\ wresults' = <<>>
    /\ embeddingResults' = <<>>
    /\ dbResults' = <<>>
    /\ stages' = <<>>
    /\ downloads' = [u \in PaperIds |-> 0]
    /\ jobStatus' = IF variant = "job" THEN "queued" ELSE jobStatus
    /\ UNCHANGED <<variant, site>>
    /\ UNCHANGED <<evars, xvars, dvars, svars, ivars>>

\* where the run goes once discovery has returned its list
afterDiscover(v, list) ==
    IF v = "cli" THEN (IF list = <<>> THEN "completed" ELSE "ingest")
    ELSE IF v = "worker" THEN "filter"
    ELSE "jobDownload"

\* scraper.scrapePapers(url) returns the site's candidates, or throws
Discover ==
    /\ ppc = "discover"
    /\ \E ok \in BOOLEAN :
         IF ok
         THEN /\ scraped' = site
              /\ ppc' = afterDiscover(variant, site)
              /\ pidx' = 1
              /\ papers' = IF variant = "cli" THEN site ELSE papers
              /\ jobStatus' = IF variant = "job" THEN "processing" ELSE jobStatus
         ELSE /\ ppc' = "failed"
              /\ jobStatus' = IF variant = "job" THEN "failed" ELSE jobStatus
              /\ UNCHANGED <<scraped, pidx, papers>>
    /\ stages' = Append(stages, "discover")
    /\ ingestVarsIdle
    /\ UNCHANGED <<variant, runs, site, queue, wresults, embeddingResults, dbResults,
                   downloads>>
    /\ UNCHANGED <<evars, xvars, dvars, svars>>

\* the first n elements of a list (Array.slice(0, n))
slice(list, n) == IF Len(list) <= n THEN list ELSE SubSeq(list, 1, n)

\* worker pipeline, step 2: dbService.paperExists, then
\* r2Service.paperExistsInR2; both answer "not there" when the lookup throws
FilterDuplicates ==
    /\ variant = "worker"
    /\ ppc = "filter"
    /\ IF pidx > Len(scraped)
       THEN /\ queue' = slice(queue, maxPapers)
            /\ ppc' = "download"
            /\ pidx' = 1
            /\ UNCHANGED stages
       ELSE /\ \E dbFault \in BOOLEAN, r2Fault \in BOOLEAN :
                 LET u == scraped[pidx]
                     dbExists == ~dbFault /\ naturalKey(u) \in dbKeys
                     r2Exists == ~r2Fault /\ r2Key(u) \in blob
                 IN  queue' = IF dbExists \/ r2Exists THEN queue
                               ELSE Append(queue, u)
            /\ pidx' = pidx + 1
            /\ stages' = IF pidx = 1 THEN Append(stages, "ingest") ELSE stages
            /\ UNCHANGED ppc
    /\ UNCHANGED <<variant, runs, site, scraped, wresults, embeddingResults, dbResults,
                   jobStatus, downloads>>
    /\ UNCHANGED <<evars, xvars, dvars, svars, ivars>>

\* the storage results that go on to enrichment and persistence
storedOf(rs) == SelectSeq(rs, LAMBDA r : r.result.success /\ ~r.result.skipped)

\* fetch(downloadUrl) of the worker pipelines hands over a body: the response
\* is ok; the body is stored whatever its size
responseOk(r) == r \in {"ok", "empty", "tooLarge"}

\* worker pipeline, step 3: fetch(downloadUrl), then r2Service.storePDF
\* (which looks the key up once more before it writes)
DownloadAndStore ==
    /\ variant = "worker"
    /\ ppc = "download"
    /\ IF pidx > Len(queue)
       THEN /\ ppc' = IF storedOf(wresults) = <<>> THEN "persist" ELSE "enrich"
            /\ pidx' = 1
            /\ UNCHANGED <<wresults, downloads, blob>>
       ELSE /\ \E r \in DownloadOutcomes, r2Fault \in BOOLEAN, uploaded \in BOOLEAN :
                 LET u == queue[pidx]
                     r2Exists == ~r2Fault /\ r2Key(u) \in blob
                     res == IF ~responseOk(r) THEN Failure("http")
                            ELSE IF r2Exists THEN Skipped
                            ELSE IF uploaded THEN Stored
                            ELSE Failure("upload")
                 IN  /\ wresults' = Append(wresults,
                            [paper |-> u, result |-> res,
                             payload |-> IF responseOk(r) THEN r ELSE "none"])
                     /\ blob' = IF res = Stored THEN blob \cup {r2Key(u)} ELSE blob
                     /\ downloads' = [downloads EXCEPT ![u] = downloads[u] + 1]
            /\ pidx' = pidx + 1
            /\ UNCHANGED ppc
    /\ UNCHANGED <<variant, runs, site, scraped, queue, embeddingResults, dbResults,
                   stages, jobStatus>>
    /\ UNCHANGED <<evars, xvars, dvars, db, ivars>>

\* job worker: fetch(downloadUrl), then PAPERS_BUCKET.put under the storage
\* key; the loop looks nothing up before it downloads
JobDownload ==
    /\ variant = "job"
    /\ ppc = "jobDownload"
    /\ IF pidx > Len(scraped)
       THEN /\ ppc' = "completed"
            /\ jobStatus' = "completed"
            /\ UNCHANGED <<pidx, downloads, blob, stages>>
       ELSE /\ \E fetched \in BOOLEAN, uploaded \in BOOLEAN :
                 LET u == scraped[pidx]
                 IN  /\ blob' = IF fetched /\ uploaded
                                THEN blob \cup {r2Key(u)} ELSE blob
                     /\ downloads' = [downloads EXCEPT ![u] = downloads[u] + 1]
            /\ pidx' = pidx + 1
            /\ stages' = IF pidx = 1 THEN Append(stages, "ingest") ELSE stages
            /\ UNCHANGED <<ppc, jobStatus>>
    /\ UNCHANGED <<variant, runs, site, scraped, queue, wresults, embeddingResults,
                   dbResults>>
    /\ UNCHANGED <<evars, xvars, dvars, db, ivars>>

\* a run that goes on as soon as a first batch of results is there
ingestReturnedFirstBatch == ipc \in {"returned", "delay"}

\* await batchStorePdfs(...) has returned its results array
ingestReturned == ipc = "returned"

\* CLI: the await on batchStorePdfs resumes; embeddings are generated only
\* when something was newly stored
AfterIngest ==
    /\ variant = "cli"
    /\ ppc = "ingest"
    /\ ingestReturned
    /\ ppc' = IF storedOf(results) = <<>> THEN "persist" ELSE "enrich"
    /\ pidx' = 1
    /\ UNCHANGED <<variant, runs, site, scraped, queue, wresults, embeddingResults,
                   dbResults, stages, jobStatus, downloads>>
    /\ UNCHANGED <<evars, xvars, dvars, svars, ivars>>

RECURSIVE papersOf(_)
papersOf(rs) == IF rs = <<>> THEN <<>> ELSE <<Head(rs).paper>> \o papersOf(Tail(rs))

\* what is handed to the embeddings service: the CLI keeps question papers
\* and mark schemes only, the worker pipeline hands over every stored paper
enrichList ==
    IF variant = "cli"
    THEN SelectSeq(papersOf(storedOf(results)),
                   LAMBDA u : paperType(u) \in {"qp", "ms"})
    ELSE papersOf(storedOf(wresults))

\* the result generateEmbedding resolves with when the last answer of the
\* vectorizer to its requests is r
enrichResult(v, u, r) ==
    IF r.ok /\ vectorAccepted(v, r.vector)
    THEN [paper |-> u, success |-> TRUE, vector |-> r.vector]
    ELSE [paper |-> u, success |-> FALSE, vector |-> NoVector]

\* the answers of the vectorizer within a pipeline run: an error or a
\* well-formed vector
PipelineResponses ==
    { [ok |-> FALSE, vector |-> NoVector],
      [ok |-> TRUE, vector |-> Vec(embeddingDimension, "finite")] }

\* one item of the embeddings batch: a vector comes back or the item fails
Enrich ==
    /\ ppc = "enrich"
    /\ IF pidx > Len(enrichList)
       THEN /\ ppc' = "persist"
            /\ pidx' = 1
            /\ UNCHANGED <<embeddingResults, stages>>
       ELSE /\ \E r \in PipelineResponses :
                 embeddingResults' =
                     Append(embeddingResults,
                            enrichResult(variant, enrichList[pidx], r))
            /\ pidx' = pidx + 1
            /\ stages' = IF pidx = 1 THEN Append(stages, "enrich") ELSE stages
            /\ UNCHANGED ppc
    /\ UNCHANGED <<variant, runs, site, scraped, queue, wresults, dbResults,
                   jobStatus, downloads>>
    /\ UNCHANGED <<evars, xvars, dvars, svars, ivars>>

\* String(n) of a one-digit number
numeral(n) == <<"0", "1", "2", "3", "4", "5", "6", "7", "8", "9">>[n + 1]

\* createPaperMetadata: the candidates of a run share the level and the
\* syllabus of the subject page; here they come from one may-june folder of
\* 2024: candidates 1 and 3 are question paper 12, candidate 2 is examiner
\* report 12, a further candidate u is question paper 1u
paperMetadata(u) ==
    [level |-> <<"i", "g", "c", "s", "e">>,
     syllabus |-> <<"0", "5", "8", "0">>,
     year |-> <<"2", "0", "2", "4">>,
     session |-> <<"m", "a", "y", "-", "j", "u", "n", "e">>,
     paperNumber |-> IF naturalKey(u) <= 2 THEN <<"1", "2">>
                     ELSE <<"1", numeral(naturalKey(u))>>,
     type |-> IF paperType(u) = "er" THEN <<"e", "r">> ELSE <<"q", "p">>]

\* the metadata the CLI hands to the embeddings service for a stored paper
metadataForEmbeddings(metadata) ==
    [examBoard |-> <<"C", "A", "I", "E">>,
     level |-> metadata.level,
     subjectCode |-> metadata.syllabus,
     year |-> metadata.year,
     session |-> metadata.session,
     paperNumber |-> metadata.paperNumber,
     paperType |-> metadata.type]

\* DatabaseService.convertUrlMetadataToScraperMetadata
convertUrlMetadataToScraperMetadata(urlMetadata) ==
    [level |-> urlMetadata.level,
     syllabus |-> urlMetadata.subjectCode,
     year |-> urlMetadata.year,
     session |-> urlMetadata.session,
     paperNumber |-> urlMetadata.paperNumber,
     type |-> urlMetadata.paperType]

\* DatabaseService.createMetadataKey
createMetadataKey(metadata) ==
    join(<<(<<"C", "A", "I", "E">>), metadata.level, metadata.syllabus,
           metadata.year, metadata.session, metadata.paperNumber,
           metadata.type>>, "-")

\* the key of the worker pipeline's embeddingMap: no level
embeddingKey(metadata) ==
    join(<<metadata.syllabus, metadata.year, metadata.session,
           metadata.paperNumber, metadata.type>>, "-")

\* the key under which embeddingMap holds an embedding result
mapKeyOfResult(v, er) ==
    IF v = "cli"
    THEN createMetadataKey(convertUrlMetadataToScraperMetadata(
             metadataForEmbeddings(paperMetadata(er.paper))))
    ELSE embeddingKey(paperMetadata(er.paper))

\* the key with which the insert loop looks a storage result up
mapKeyOfStored(v, u) ==
    IF v = "cli" THEN createMetadataKey(paperMetadata(u))
    ELSE embeddingKey(paperMetadata(u))

\* an embeddingMap whose key leaves the document type out
mappedResultsWithoutType(u) ==
    { n \in 1..Len(embeddingResults) :
        /\ paperMetadata(embeddingResults[n].paper).paperNumber
               = paperMetadata(u).paperNumber
        /\ (variant = "cli" \/ embeddingResults[n].success) }

\* the entries of embeddingMap under the candidate's key: batchInsertPapers
\* maps every embedding result, the worker pipeline the successful ones
mappedResults(u) ==
    { n \in 1..Len(embeddingResults) :
        /\ mapKeyOfResult(variant, embeddingResults[n]) = mapKeyOfStored(variant, u)
        /\ (variant = "cli" \/ embeddingResults[n].success) }

\* embeddingMap.get(key)?.embedding: Map.set keeps the latest entry of a key
embeddingOf(u) ==
    IF mappedResults(u) = {} THEN NoVector
    ELSE embeddingResults[lastOf(mappedResults(u))].vector

\* what the persist loop walks: batchInsertPapers gets every storage result,
\* the worker pipeline only the newly stored ones
persistList == IF variant = "cli" THEN results ELSE storedOf(wresults)

\* a batchInsertPapers that hands skipped storage results to insertPaper
passesThroughFailuresOnly(res) == ~res.success

\* batchInsertPapers: a storage result that failed or was skipped gets a
\* failed database result and insertPaper is not called
passesThrough(res) == ~res.success \/ res.skipped

\* findPaper / paperExists: a lookup that throws is answered "not found"
lookupFinds(fault, u) == ~fault /\ naturalKey(u) \in dbKeys

\* an insertPaper that writes a row although the paper was found
dbAfterSkipInsertsAgain(d, u) == d \cup {Row(Cardinality(d) + 1, u, FALSE)}

\* insertPaper returns skipped=true for a paper it found; nothing is written
dbAfterSkip(d, u) == d

\* the validation of DatabaseService.insertPaper: an attached vector must have
\* 1536 entries, each of type number and not NaN; the worker's insertPaper
\* validates nothing before it inserts
vectorRejected(v, vec) ==
    /\ v = "cli"
    /\ vec # NoVector
    /\ (vec.len # embeddingDimension \/ vec.vals = "notNumber")

\* whether the inserted row ends up with the vector: the CLI inserts the
\* vector with the row; the worker inserts the row first and then runs
\* updatePaperEmbedding, for a vector of 1536 entries only, and swallows the
\* error of that update
rowHasVector(v, vec, updated) ==
    IF v = "cli" THEN vec # NoVector
    ELSE vec.len = embeddingDimension /\ vec.vals = "finite" /\ updated

DbResult(status, found, attempted) ==
    [status |-> status, found |-> found, attempted |-> attempted]

\* one item of batchInsertPapers / of the worker's insert loop: insertPaper
Persist ==
    /\ ppc = "persist"
    /\ IF pidx > Len(persistList)
       THEN /\ ppc' = "completed"
            /\ UNCHANGED <<pidx, db, dbResults, stages>>
       ELSE /\ LET item == persistList[pidx]
                   u == item.paper
                   vec == embeddingOf(u)
               IN  IF passesThrough(item.result)
                   THEN /\ dbResults' = Append(dbResults, DbResult("failed", FALSE, FALSE))
                        /\ db' = db
                   ELSE \E lookupFault \in BOOLEAN, insertFault \in BOOLEAN,
                           updated \in BOOLEAN :
                          IF lookupFinds(lookupFault, u)
                          THEN /\ dbResults' = Append(dbResults, DbResult("skipped", TRUE, FALSE))
                               /\ db' = dbAfterSkip(db, u)
                          ELSE IF vectorRejected(variant, vec)
                          THEN /\ dbResults' = Append(dbResults, DbResult("failed", FALSE, FALSE))
                               /\ db' = db
                          ELSE IF insertFault
                          THEN /\ dbResults' = Append(dbResults, DbResult("failed", FALSE, TRUE))
                               /\ db' = db
                          ELSE /\ dbResults' = Append(dbResults, DbResult("inserted", FALSE, TRUE))
                               /\ db' = db \cup
                                    {Row(Cardinality(db) + 1, u,
                                         rowHasVector(variant, vec, updated))}
            /\ pidx' = pidx + 1
            /\ stages' = IF pidx = 1 THEN Append(stages, "persist") ELSE stages
            /\ UNCHANGED ppc
    /\ UNCHANGED <<variant, runs, site, scraped, queue, wresults, embeddingResults,
                   jobStatus, downloads>>
    /\ UNCHANGED <<evars, xvars, dvars, blob, ivars>>

Next ==
    \/ StartRun
    \/ Discover
    \/ BeginCall
    \/ ReturnResults
    \/ StartBatch
    \/ \E k \in members : CheckExists(k)
    \/ \E k \in members : DownloadAttempt(k)
    \/ \E k \in members : PutBlob(k)
    \/ FinishBatch
    \/ BatchDelay
    \/ AfterIngest
    \/ FilterDuplicates
    \/ DownloadAndStore
    \/ JobDownload
    \/ Enrich
    \/ Persist

(***************************************************************************)
(* Specifications.                                                         *)
(***************************************************************************)
\* one scrapePapers call of either discoverer; the storage service is idle
InitDiscover ==
    /\ scraper \in {"papa", "pastpapers"}
    /\ subjectUrl \in SubjectUrls
    /\ dpc = "start"
    /\ yearUrls = <<>>
    /\ yearIdx = 0
    /\ attempt = 0
    /\ pages = <<>>
    /\ allPapers = <<>>
    /\ requests = <<>>
    /\ failedYears = {}
    /\ waited = <<>>
    /\ derr = "none"
    /\ blob = {}
    /\ db = {}
    /\ papers = <<>>
    /\ skipIfExists = TRUE
    /\ concurrency = 1
    /\ ipc = "idle"
    /\ calls = 0
    /\ batchStart = 1
    /\ mpc = <<>>
    /\ attempts = <<>>
    /\ fetches = <<>>
    /\ lookup = <<>>
    /\ payload = <<>>
    /\ outcome = <<>>
    /\ results = <<>>
    /\ prevOk = {}
    /\ variant = "none"
    /\ ppc = "none"
    /\ runs = 0
    /\ site = <<>>
    /\ scraped = <<>>
    /\ queue = <<>>
    /\ pidx = 0
    /\ wresults = <<>>
    /\ embeddingResults = <<>>
    /\ dbResults = <<>>
    /\ stages = <<>>
    /\ jobStatus = "none"
    /\ downloads = [u \in PaperIds |-> 0]
    /\ stored = <<>>
    /\ items = <<>>
    /\ epc = "idle"
    /\ ebatchStart = 1
    /\ estate = <<>>
    /\ eattempts = <<>>
    /\ eout = <<>>
    /\ eresults = <<>>
    /\ vcalls = <<>>
    /\ now = 0
    /\ JOB_STATUS = <<>>
    /\ background = {}
    /\ posted = 0
    /\ responses = <<>>
    /\ progressFiles = <<>>
    /\ sessionId = 0
    /\ processedPapers = {}
    /\ submitted = <<>>
    /\ interrupted = <<>>
    /\ fn = "none"
    /\ args = <<>>
    /\ returned = FALSE
    /\ ret = <<>>
    /\ requestTimes = <<>>
    /\ issued = <<>>
    /\ lpc = "idle"
    /\ texts = 0
    /\ lidx = 0
    /\ tries = 0
    /\ wakeAt = 0
    /\ unanswered = 0
    /\ rattempt = 0
    /\ waits = <<>>
    /\ caught = {}
    /\ unrecorded = {}

SpecDiscover == InitDiscover /\ [][DNext]_vars

\* batchStorePdfs calls on one candidate list; no discoverer runs
InitIngest ==
    /\ scraper = "papa"
    /\ subjectUrl = [host |-> "elsewhere", seg |-> <<"lower", "lower", "digits">>]
    /\ dpc = "idle"
    /\ yearUrls = <<>>
    /\ yearIdx = 0
    /\ attempt = 0
    /\ pages = <<>>
    /\ allPapers = <<>>
    /\ requests = <<>>
    /\ failedYears = {}
    /\ waited = <<>>
    /\ derr = "none"
    /\ blob \in SUBSET { r2Key(u) : u \in PaperIds }
    /\ db = {}
    /\ papers \in CandLists
    /\ skipIfExists \in BOOLEAN
    /\ concurrency \in 1..MaxConcurrency
    /\ ipc = "idle"
    /\ calls = 0
    /\ batchStart = 1
    /\ mpc = [k \in members |-> "idle"]
    /\ attempts = [k \in members |-> 0]
    /\ fetches = [k \in members |-> 0]
    /\ lookup = [k \in members |-> "none"]
    /\ payload = [k \in members |-> "none"]
    /\ outcome = [k \in members |-> Unresolved]
    /\ results = <<>>
    /\ prevOk = {}
    /\ variant = "none"
    /\ ppc = "none"
    /\ runs = 0
    /\ site = <<>>
    /\ scraped = <<>>
    /\ queue = <<>>
    /\ pidx = 0
    /\ wresults = <<>>
    /\ embeddingResults = <<>>
    /\ dbResults = <<>>
    /\ stages = <<>>
    /\ jobStatus = "none"
    /\ downloads = [u \in PaperIds |-> 0]
    /\ stored = <<>>
    /\ items = <<>>
    /\ epc = "idle"
    /\ ebatchStart = 1
    /\ estate = <<>>
    /\ eattempts = <<>>
    /\ eout = <<>>
    /\ eresults = <<>>
    /\ vcalls = <<>>
    /\ now = 0
    /\ JOB_STATUS = <<>>
    /\ background = {}
    /\ posted = 0
    /\ responses = <<>>
    /\ progressFiles = <<>>
    /\ sessionId = 0
    /\ processedPapers = {}
    /\ submitted = <<>>
    /\ interrupted = <<>>
    /\ fn = "none"
    /\ args = <<>>
    /\ returned = FALSE
    /\ ret = <<>>
    /\ requestTimes = <<>>
    /\ issued = <<>>
    /\ lpc = "idle"
    /\ texts = 0
    /\ lidx = 0
    /\ tries = 0
    /\ wakeAt = 0
    /\ unanswered = 0
    /\ rattempt = 0
    /\ waits = <<>>
    /\ caught = {}
    /\ unrecorded = {}

SpecIngest == InitIngest /\ [][INext]_vars


\* one enrichment step over the newly stored papers of a run
InitEnrich ==
    /\ scraper = "papa"
    /\ subjectUrl = [host |-> "elsewhere", seg |-> <<"lower", "lower", "digits">>]
    /\ dpc = "idle"
    /\ yearUrls = <<>>
    /\ yearIdx = 0
    /\ attempt = 0
    /\ pages = <<>>
    /\ allPapers = <<>>
    /\ requests = <<>>
    /\ failedYears = {}
    /\ waited = <<>>
    /\ derr = "none"
    /\ blob = {}
    /\ db = {}
    /\ papers = <<>>
    /\ skipIfExists = TRUE
    /\ concurrency = MaxConcurrency
    /\ ipc = "idle"
    /\ calls = 0
    /\ batchStart = 1
    /\ mpc = <<>>
    /\ attempts = <<>>
    /\ fetches = <<>>
    /\ lookup = <<>>
    /\ payload = <<>>
    /\ outcome = <<>>
    /\ results = <<>>
    /\ prevOk = {}
    /\ variant \in {"cli", "worker"}
    /\ ppc = "none"
    /\ runs = 0
    /\ site = <<>>
    /\ scraped = <<>>
    /\ queue = <<>>
    /\ pidx = 0
    /\ wresults = <<>>
    /\ embeddingResults = <<>>
    /\ dbResults = <<>>
    /\ stages = <<>>
    /\ jobStatus = "none"
    /\ downloads = [u \in PaperIds |-> 0]
    /\ stored \in SeqsUpTo(DocTypes, MaxItems)
    /\ items = <<>>
    /\ epc = "idle"
    /\ ebatchStart = 1
    /\ estate = <<>>
    /\ eattempts = <<>>
    /\ eout = <<>>
    /\ eresults = <<>>
    /\ vcalls = <<>>
    /\ now = 0
    /\ JOB_STATUS = <<>>
    /\ background = {}
    /\ posted = 0
    /\ responses = <<>>
    /\ progressFiles = <<>>
    /\ sessionId = 0
    /\ processedPapers = {}
    /\ submitted = <<>>
    /\ interrupted = <<>>
    /\ fn = "none"
    /\ args = <<>>
    /\ returned = FALSE
    /\ ret = <<>>
    /\ requestTimes = <<>>
    /\ issued = <<>>
    /\ lpc = "idle"
    /\ texts = 0
    /\ lidx = 0
    /\ tries = 0
    /\ wakeAt = 0
    /\ unanswered = 0
    /\ rattempt = 0
    /\ waits = <<>>
    /\ caught = {}
    /\ unrecorded = {}

SpecEnrich == InitEnrich /\ [][ENext]_vars

\* what the ingest stage can hand to persistence for a candidate
StorageKinds == {Stored, Skipped, Failure("http5xx")}

\* the storage results an ingest stage can return for a candidate list
ResultLists(v, list) ==
    { [k \in 1..Len(list) |->
          IF v = "cli" THEN [paper |-> list[k], result |-> f[k]]
          ELSE [paper |-> list[k], result |-> f[k], payload |-> "ok"]] :
        f \in [1..Len(list) -> StorageKinds] }

\* the embedding results an enrichment stage can return for a list of papers
EmbeddingLists(v, list) ==
    { [k \in 1..Len(list) |-> enrichResult(v, list[k], f[k])] :
        f \in [1..Len(list) -> VectorizerResponses] }

\* record stores that earlier runs can have left behind
InitialDbs ==
    { {}, {Row(1, 1, FALSE)}, {Row(1, 2, TRUE)}, {Row(1, 1, FALSE), Row(2, 2, TRUE)} }

\* one persist stage over the storage and embedding results of a run
InitPersist ==
    /\ variant \in {"cli", "worker"}
    /\ site \in CandLists
    /\ scraper = "papa"
    /\ subjectUrl = [host |-> "elsewhere", seg |-> <<"lower", "lower", "digits">>]
    /\ dpc = "idle"
    /\ yearUrls = <<>>
    /\ yearIdx = 0
    /\ attempt = 0
    /\ pages = <<>>
    /\ allPapers = <<>>
    /\ requests = <<>>
    /\ failedYears = {}
    /\ waited = <<>>
    /\ derr = "none"
    /\ blob = { r2Key(site[k]) : k \in 1..Len(site) }
    /\ db \in InitialDbs
    /\ papers = <<>>
    /\ skipIfExists = TRUE
    /\ concurrency = MaxConcurrency
    /\ ipc = "idle"
    /\ calls = 0
    /\ batchStart = 1
    /\ mpc = <<>>
    /\ attempts = <<>>
    /\ fetches = <<>>
    /\ lookup = <<>>
    /\ payload = <<>>
    /\ outcome = <<>>
    /\ results \in (IF variant = "cli" THEN ResultLists(variant, site) ELSE {<<>>})
    /\ prevOk = {}
    /\ ppc = "persist"
    /\ runs = 1
    /\ scraped = site
    /\ queue = (IF variant = "worker" THEN site ELSE <<>>)
    /\ pidx = 1
    /\ wresults \in (IF variant = "worker" THEN ResultLists(variant, site) ELSE {<<>>})
    /\ embeddingResults \in EmbeddingLists(variant, enrichList) \cup {<<>>}
    /\ dbResults = <<>>
    /\ stages = <<"discover", "ingest">>
    /\ jobStatus = "none"
    /\ downloads = [u \in PaperIds |-> 0]
    /\ stored = <<>>
    /\ items = <<>>
    /\ epc = "idle"
    /\ ebatchStart = 1
    /\ estate = <<>>
    /\ eattempts = <<>>
    /\ eout = <<>>
    /\ eresults = <<>>
    /\ vcalls = <<>>
    /\ now = 0
    /\ JOB_STATUS = <<>>
    /\ background = {}
    /\ posted = 0
    /\ responses = <<>>
    /\ progressFiles = <<>>
    /\ sessionId = 0
    /\ processedPapers = {}
    /\ submitted = <<>>
    /\ interrupted = <<>>
    /\ fn = "none"
    /\ args = <<>>
    /\ returned = FALSE
    /\ ret = <<>>
    /\ requestTimes = <<>>
    /\ issued = <<>>
    /\ lpc = "idle"
    /\ texts = 0
    /\ lidx = 0
    /\ tries = 0
    /\ wakeAt = 0
    /\ unanswered = 0
    /\ rattempt = 0
    /\ waits = <<>>
    /\ caught = {}
    /\ unrecorded = {}

SpecPersist == InitPersist /\ [][Persist]_vars

\* pipeline runs of one deployment on one subject URL
Init ==
    /\ scraper = "papa"
    /\ subjectUrl = [host |-> "elsewhere", seg |-> <<"lower", "lower", "digits">>]
    /\ dpc = "idle"
    /\ yearUrls = <<>>
    /\ yearIdx = 0
    /\ attempt = 0
    /\ pages = <<>>
    /\ allPapers = <<>>
    /\ requests = <<>>
    /\ failedYears = {}
    /\ waited = <<>>
    /\ derr = "none"
    /\ blob = {}
    /\ db = {}
    /\ papers = <<>>
    /\ skipIfExists \in BOOLEAN
    /\ concurrency = MaxConcurrency
    /\ ipc = "idle"
    /\ calls = 0
    /\ batchStart = 1
    /\ mpc = <<>>
    /\ attempts = <<>>
    /\ fetches = <<>>
    /\ lookup = <<>>
    /\ payload = <<>>
    /\ outcome = <<>>
    /\ results = <<>>
    /\ prevOk = {}
    /\ variant \in {"cli", "worker", "job"}
    /\ ppc = "idle"
    /\ runs = 0
    /\ site \in CandLists
    /\ scraped = <<>>
    /\ queue = <<>>
    /\ pidx = 0
    /\ wresults = <<>>
    /\ embeddingResults = <<>>
    /\ dbResults = <<>>
    /\ stages = <<>>
    /\ jobStatus = "none"
    /\ downloads = [u \in PaperIds |-> 0]
    /\ stored = <<>>
    /\ items = <<>>
    /\ epc = "idle"
    /\ ebatchStart = 1
    /\ estate = <<>>
    /\ eattempts = <<>>
    /\ eout = <<>>
    /\ eresults = <<>>
    /\ vcalls = <<>>
    /\ now = 0
    /\ JOB_STATUS = <<>>
    /\ background = {}
    /\ posted = 0
    /\ responses = <<>>
    /\ progressFiles = <<>>
    /\ sessionId = 0
    /\ processedPapers = {}
    /\ submitted = <<>>
    /\ interrupted = <<>>
    /\ fn = "none"
    /\ args = <<>>
    /\ returned = FALSE
    /\ ret = <<>>
    /\ requestTimes = <<>>
    /\ issued = <<>>
    /\ lpc = "idle"
    /\ texts = 0
    /\ lidx = 0
    /\ tries = 0
    /\ wakeAt = 0
    /\ unanswered = 0
    /\ rattempt = 0
    /\ waits = <<>>
    /\ caught = {}
    /\ unrecorded = {}

Spec == Init /\ [][Next]_vars


(***************************************************************************)
(* Properties of discovery.                                                *)
(***************************************************************************)
Range(f) == { f[x] : x \in DOMAIN f }

\* folder i's page was requested at least once
requested(i) == i \in Range(requests)

\* folder i passes the year window (and, for the CLI scraper, its URL parses)
inWindow(i) ==
    \/ scraper = "pastpapers"
    \/ ~parseYearThrows(yearUrls[i]) /\ ~outsideRange(yearUrls[i])

\* every link of folder i's page whose identity can be built is a candidate
folderReturned(i) ==
    \A k \in 1..Len(pages[i]) :
        pages[i][k] => [folder |-> i, link |-> k] \in Range(allPapers)

\* C7: if fetching a year page fails, that year contributes no candidates,
\* discovery goes on with the next folder, the candidates of all other year
\* folders are returned, and the discovery call does not fail.
C7_YearFetchFailureSkipsYearOnly ==
    /\ \A i \in failedYears : \A c \in Range(allPapers) : c.folder # i
    /\ failedYears # {} => dpc # "failed"
    /\ dpc = "done" =>
         \A j \in 1..Len(yearUrls) :
             inWindow(j) => requested(j) /\ folderReturned(j)

\* C8: a year-folder URL that cannot be parsed is fatal to that folder only:
\* the discovery call does not fail because of it, and every remaining folder
\* is still processed.
C8_UnparseableYearSkipsFolderOnly ==
    /\ derr # "yearParse"
    /\ dpc = "done" =>
         \A j \in 1..Len(yearUrls) :
             inWindow(j) => requested(j) /\ folderReturned(j)

\* C9: when the identity of one link cannot be built, only that candidate is
\* dropped: a link is a candidate exactly when its identity can be built, the
\* candidates keep page order, and the folders after it are still processed.
C9_OnlyFailingCandidateDropped ==
    /\ \A i \in 1..Len(pages) : \A k \in 1..Len(pages[i]) :
         pages[i][k] <=> [folder |-> i, link |-> k] \in Range(allPapers)
    /\ \A a, b \in 1..Len(allPapers) :
         a < b => \/ allPapers[a].folder < allPapers[b].folder
                  \/ /\ allPapers[a].folder = allPapers[b].folder
                     /\ allPapers[a].link < allPapers[b].link
    /\ (dpc = "done" /\ derr = "none") =>
         \A j \in 1..Len(yearUrls) : inWindow(j) => requested(j)

\* a page with a link that fails and a link that builds, and a later folder
\* whose candidates were still collected
C9_Witness ==
    /\ dpc = "done"
    /\ \E i, j \in 1..Len(pages) :
         /\ i < j
         /\ \E k \in 1..Len(pages[i]) : ~pages[i][k]
         /\ \E c \in Range(allPapers) : c.folder = i
         /\ \E c \in Range(allPapers) : c.folder = j

\* the subject URL is malformed for the discoverer that is given it
malformed ==
    IF scraper = "pastpapers" THEN subjectUrl.host # "pastpapers.co"
    ELSE \/ Len(subjectUrl.seg) < 3
         \/ subjectUrl.seg[1] # "lower"
         \/ subjectUrl.seg[Len(subjectUrl.seg)] # "digits"

\* C11: for a malformed subject URL the discovery call fails with a format
\* error and the page fetcher is never invoked; a request is only ever issued
\* for a well-formed subject URL.
C11_MalformedSubjectUrlFailsBeforeFetch ==
    /\ malformed => dpc \in {"start", "failed"} /\ requests = <<>>
    /\ (malformed /\ dpc = "failed") => derr = "subjectUrl"
    /\ derr = "subjectUrl" => malformed

\* a discovery call that failed on a subject URL without syllabus digits
C11_Witness ==
    /\ scraper = "papa"
    /\ subjectUrl.seg = <<"lower", "lower", "lower">>
    /\ dpc = "failed"
    /\ derr = "subjectUrl"
    /\ requests = <<>>

\* C10: if fetching the root page fails, the discovery call fails: it returns
\* no list, empty or partial, and it requests no year page.
C10_RootFailurePropagates ==
    derr = "rootFetch" =>
        /\ dpc = "failed"
        /\ \A n \in 1..Len(requests) : requests[n] = 0


(***************************************************************************)
(* Properties of ingest.                                                   *)
(***************************************************************************)
inFlight == { k \in DOMAIN mpc : mpc[k] \in {"check", "download", "put"} }

batchOf(k) == (k - 1) \div concurrency

\* storePdf alone: the lookup comes before any download of the candidate, and
\* a candidate found present is skipped without a download
storePdfLooksFirst ==
    skipIfExists =>
        \A k \in DOMAIN mpc :
            /\ lookup[k] = "present" => outcome[k] = Skipped /\ fetches[k] = 0
            /\ fetches[k] > 0 => lookup[k] = "absent"

C4_PartialFailureIsolation ==
    /\ ipc = "returned" =>
         /\ Len(results) = Len(papers)
         /\ \A k \in 1..Len(papers) :
              /\ results[k].paper = papers[k]
              /\ results[k].result = outcome[k]
    /\ \A k \in DOMAIN mpc :
         mpc[k] = "done" =>
            /\ outcome[k].success <=> outcome[k].error = "none"
            /\ outcome[k].error # "unresolved"
            /\ outcome[k] = Stored => r2Key(papers[k]) \in blob

\* a returned batch in which a candidate failed the size validation and the
\* next candidate of the same batch was stored
C4_Witness ==
    /\ ipc = "returned"
    /\ concurrency >= 2
    /\ Len(results) >= 2
    /\ results[1].result = Failure("tooLarge")
    /\ results[2].result = Stored

\* C5: candidates are started in consecutive batches of at most concurrency
\* members, a member of a batch is started only when every member of the
\* batches before it has resolved, and so at most concurrency operations are
\* in flight.
C5_BatchesOfBoundedWidth ==
    /\ Cardinality(inFlight) <= concurrency
    /\ \A i, j \in DOMAIN mpc :
         (mpc[j] # "idle" /\ batchOf(i) < batchOf(j)) => mpc[i] = "done"
    /\ \A i, j \in DOMAIN mpc :
         (mpc[j] # "idle" /\ i < j) => mpc[i] # "idle"

\* a member of a second batch in flight after a first batch of two members,
\* one of which failed
C5_Witness ==
    /\ concurrency = 2
    /\ Len(papers) >= 3
    /\ mpc[3] \in {"check", "download", "put"}
    /\ ~outcome[1].success
    /\ outcome[2].success


\* the thrown errors of a download attempt that the claims call retryable
retryableFailures == {"http429", "http5xx", "network"}

\* what retryOperation does hold: a thrown error of any kind ends the
\* candidate only when the last permitted attempt has been made
thrownErrorsRetriedUntilExhausted ==
    \A k \in DOMAIN mpc :
        (mpc[k] = "done" /\ ~resolvesWithBuffer(payload[k]) /\ payload[k] # "none")
            => /\ attempts[k] = pdfMaxRetries
               /\ outcome[k] = Failure(payload[k])

\* what storePdf does hold for an empty body: the candidate ends at once as a
\* failure and is never handed to the upload
emptyPayloadIsTerminal ==
    \A k \in DOMAIN mpc :
        payload[k] = "empty" => mpc[k] = "done" /\ outcome[k] = Failure("empty")

\* C12: a download attempt that ends in a 4xx status other than 429 ends the
\* candidate at once as a failure and its URL is not fetched again, whereas a
\* 5xx, a 429 or a network failure fails the candidate only when the permitted
\* attempts are used up.
C12_ClientErrorNotRetried ==
    /\ [](\A k \in DOMAIN mpc :
            /\ payload[k] = "http4xx" =>
                   mpc[k] = "done" /\ outcome[k] = Failure("http4xx")
            /\ (payload[k] \in retryableFailures /\ mpc[k] = "done") =>
                   attempts[k] = pdfMaxRetries)
    /\ [][\A k \in DOMAIN mpc :
             payload[k] = "http4xx" => fetches'[k] <= fetches[k]]_vars

\* C13: a download attempt that delivers an empty body or a body above the
\* size ceiling ends the candidate at once with success=false; the candidate
\* is not fetched again and is never handed to the upload.
C13_InvalidPayloadIsTerminal ==
    /\ [](\A k \in DOMAIN mpc :
            payload[k] \in {"empty", "tooLarge"} =>
                mpc[k] = "done" /\ outcome[k] = Failure(payload[k]))
    /\ [][\A k \in DOMAIN mpc :
             payload[k] \in {"empty", "tooLarge"} =>
                 fetches'[k] <= fetches[k]]_vars


(***************************************************************************)
(* Properties of enrichment.                                               *)
(***************************************************************************)
requestsInFlight == { k \in DOMAIN estate : estate[k] = "inflight" }

\* what run() does hold: the CLI hands only qp and ms items to the service
cliEnrichesOnlyQpMs ==
    variant = "cli" => \A k \in 1..Len(items) : items[k] \in {"qp", "ms"}

\* C14: of a mixed list of qp, ms and gt items only the qp and ms items are
\* handed to the vectorizer: no request is ever sent for a gt item.
C14_OnlyQpMsReachVectorizer ==
    \A n \in 1..Len(vcalls) : items[vcalls[n]] \in {"qp", "ms"}

\* C15: at most one vectorizer request is in flight at any time.
C15_OneRequestInFlight ==
    Cardinality(requestsInFlight) <= 1

\* C16: the batch call of the embeddings service never stops early: it
\* returns one result per item in input order, an item whose requests failed
\* on every permitted attempt carries success=false, and the items after it
\* still get their requests and their own results.
C16_EnrichNeverStopsEarly ==
    /\ epc = "returned" =>
         /\ Len(eresults) = Len(items)
         /\ \A k \in 1..Len(items) :
              /\ estate[k] = "done"
              /\ eresults[k] = eout[k]
              /\ \E n \in 1..Len(vcalls) : vcalls[n] = k
    /\ \A k \in DOMAIN estate :
         (estate[k] = "done" /\ ~eout[k].success) =>
             /\ eout[k] = EmbeddingFailure
             /\ eattempts[k] <= permittedAttempts(variant)

\* a returned CLI batch whose first item failed on all three attempts and
\* whose second item got a vector
C16_Witness ==
    /\ variant = "cli"
    /\ epc = "returned"
    /\ Len(items) >= 2
    /\ eresults[1] = EmbeddingFailure
    /\ eattempts[1] = embedMaxRetries
    /\ eresults[2].success

\* C17: every successful enrichment result carries a vector of exactly 1536
\* entries; a response of any other length gives success=false.
C17_SuccessHasExpectedDimension ==
    \A k \in DOMAIN eout :
        eout[k].success => eout[k].vector.len = embeddingDimension

\* what the worker service does hold: it checks the length of the vector
workerChecksDimension ==
    variant = "worker" =>
        \A k \in DOMAIN eout :
            eout[k].success => eout[k].vector.len = embeddingDimension

(***************************************************************************)
(* Properties of persistence.                                              *)
(***************************************************************************)
\* a step of the persist loop that handled the item at pidx
persistStep == ppc = "persist" /\ pidx <= Len(persistList) /\ pidx' = pidx + 1

\* the database result that step appended
lastDbResult == dbResults'[Len(dbResults')]

\* the vector attached to an item is unfit for the record store: it has not
\* 1536 entries, or an entry of it is not a finite number
invalidVector(vec) ==
    vec # NoVector /\ (vec.len # embeddingDimension \/ vec.vals # "finite")

\* C18: when the persist step finds a record with the item's natural key it
\* reports skipped=true and writes nothing: the record store after the step
\* is the record store before it; and skipped is reported only for a found
\* record.
C18_FoundRecordIsSkippedWithoutWrite ==
    [][persistStep =>
         /\ lastDbResult.found =>
                /\ lastDbResult.status = "skipped"
                /\ ~lastDbResult.attempted
                /\ db' = db
         /\ lastDbResult.status = "skipped" =>
                /\ lastDbResult.found
                /\ naturalKey(persistList[pidx].paper) \in dbKeys]_vars

\* a persist stage that skipped an item whose record an earlier run had left
\* and inserted another item
C18_Witness ==
    /\ \E n \in 1..Len(dbResults) : dbResults[n].status = "skipped"
    /\ \E n \in 1..Len(dbResults) : dbResults[n].status = "inserted"
    /\ Cardinality(db) = 2

\* C19: a persist step for an item whose attached vector has the wrong length
\* or holds an entry that is not a finite number, and whose record is not
\* found, reports a failure and inserts nothing.
C19_InvalidVectorIsFailure ==
    [][(persistStep /\ ~passesThrough(persistList[pidx].result)
           /\ invalidVector(embeddingOf(persistList[pidx].paper))
           /\ ~lastDbResult.found) =>
         /\ lastDbResult.status = "failed"
         /\ db' = db]_vars

\* what DatabaseService.insertPaper does hold: a vector of the wrong length or
\* with an entry that is no number is a failure without insert
cliRejectsWrongLengthAndNotNumber ==
    [][(persistStep /\ variant = "cli"
           /\ ~passesThrough(persistList[pidx].result)
           /\ embeddingOf(persistList[pidx].paper) # NoVector
           /\ (\/ embeddingOf(persistList[pidx].paper).len # embeddingDimension
               \/ embeddingOf(persistList[pidx].paper).vals = "notNumber")
           /\ ~lastDbResult.found) =>
         /\ lastDbResult.status = "failed"
         /\ db' = db]_vars

\* C20: a persist step for a storage result that failed or was skipped makes
\* no insert attempt, reports a failed result and leaves the record store as
\* it was; the worker pipeline does not walk such results at all.
C20_FailedOrSkippedStorageIsNotInserted ==
    /\ [][(persistStep
             /\ (~persistList[pidx].result.success \/ persistList[pidx].result.skipped)) =>
            /\ lastDbResult.status = "failed"
            /\ ~lastDbResult.attempted
            /\ db' = db]_vars
    /\ [](variant = "worker" =>
            \A n \in 1..Len(persistList) :
                persistList[n].result.success /\ ~persistList[n].result.skipped)

\* a CLI persist stage that passed a failed and a skipped storage result
\* through and inserted the record of a stored one
C20_Witness ==
    /\ variant = "cli"
    /\ ppc = "completed"
    /\ Len(results) = 3
    /\ ~results[1].result.success
    /\ results[2].result.skipped
    /\ results[3].result = Stored
    /\ dbResults[1].status = "failed"
    /\ dbResults[2].status = "failed"
    /\ dbResults[3].status = "inserted"

\* the embedding result whose vector the insert loop attaches to candidate u
attachedResult(u) == embeddingResults[lastOf(mappedResults(u))]

\* C38: a record that the persist stage inserts with a vector gets the vector
\* of an embedding result of its own natural key: the lookup finds a result,
\* and the result it finds was produced for a paper with the record's
\* natural key and carries a vector
C38_VectorBelongsToRecordsNaturalKey ==
    [][(ppc = "persist" /\ pidx <= Len(persistList))
          => \A r \in db' \ db :
                r.embedding =>
                    LET u == persistList[pidx].paper
                    IN  /\ mappedResults(u) # {}
                        /\ naturalKey(attachedResult(u).paper) = r.key
                        /\ attachedResult(u).success
                        /\ attachedResult(u).vector # NoVector]_vars

\* a finished persist stage of a run whose enrichment produced vectors for
\* two natural keys and which inserted a record with a vector for each
C38_Witness ==
    /\ ppc = "completed"
    /\ \E i, j \in 1..Len(dbResults) :
          /\ naturalKey(persistList[i].paper) # naturalKey(persistList[j].paper)
          /\ \A k \in {i, j} :
                /\ dbResults[k].status = "inserted"
                /\ embeddingOf(persistList[k].paper) # NoVector
                /\ \E r \in db :
                      r.key = naturalKey(persistList[k].paper) /\ r.embedding

\* the candidates handed to the ingest stage and the outcomes it returned
ingestCandidates == IF variant = "worker" THEN scraped ELSE papers
ingestOutcomes == IF variant = "worker" THEN wresults ELSE results
ingestHasReturned ==
    IF variant = "worker" THEN ppc \in {"enrich", "persist", "completed"}
    ELSE ipc = "returned"

\* holds: a returned batchStorePdfs call has one outcome per candidate, in
\* input order, each with the metadata of its candidate
batchStoreOutcomePerCandidate ==
    (variant # "worker" /\ ingestHasReturned) =>
        /\ Len(results) = Len(papers)
        /\ \A k \in 1..Len(papers) : results[k].paper = papers[k]

\* holds: the worker pipeline has one outcome per paper that it attempted, in
\* the order of the attempts, each with the metadata of its paper
workerOutcomePerAttemptedPaper ==
    (variant = "worker" /\ ingestHasReturned) =>
        /\ Len(wresults) = Len(queue)
        /\ \A k \in 1..Len(queue) : wresults[k].paper = queue[k]

\* C39 (does not hold): when the ingest stage has returned, it has returned
\* exactly one outcome for every candidate it was given, in input order, and
\* the k-th outcome carries the metadata of the k-th candidate.  The worker
\* pipeline returns no outcome for a candidate that its duplicate filter
\* found in the record store or the blob store, nor for one beyond maxPapers
C39_OneOutcomePerCandidateInOrder ==
    ingestHasReturned =>
        /\ Len(ingestOutcomes) = Len(ingestCandidates)
        /\ \A k \in 1..Len(ingestCandidates) :
              ingestOutcomes[k].paper = ingestCandidates[k]

\* does not hold: the worker pipeline validates no body, so an empty or
\* oversized body is stored like any other
workerStoresOnlyValidPayloads ==
    \A n \in 1..Len(wresults) :
        wresults[n].result = Stored => wresults[n].payload = "ok"

(***************************************************************************)
(* Properties of pipeline runs.                                            *)
(***************************************************************************)
stageRank(st) ==
    IF st = "discover" THEN 1
    ELSE IF st = "ingest" THEN 2
    ELSE IF st = "enrich" THEN 3
    ELSE 4

\* the ingest stage has returned an outcome for every candidate it was given
ingestComplete ==
    IF variant = "cli"
    THEN ipc = "returned" /\ Len(results) = Len(papers)
    ELSE ppc \notin {"filter", "download"} /\ Len(wresults) = Len(queue)

\* the enrichment stage has returned a result for every item it was given
enrichComplete == Len(embeddingResults) = Len(enrichList)

\* C2: the record store never holds two records with the same natural key.
C2_OneRecordPerNaturalKey ==
    \A r1, r2 \in db : r1.key = r2.key => r1 = r2

\* C3: with skipIfExists set, a candidate whose natural key is already present
\* is given the outcome success=true, skipped=true and its downloadUrl is
\* never fetched; the existence check of a candidate comes before any
\* download of it.
C3_PresentKeyIsSkippedWithoutFetch ==
    /\ [](skipIfExists =>
            \A k \in DOMAIN mpc :
                /\ lookup[k] = "present" =>
                       outcome[k] = Skipped /\ fetches[k] = 0
                /\ fetches[k] > 0 => lookup[k] = "absent")
    /\ [][\A u \in PaperIds :
             downloads'[u] > downloads[u] => r2Key(u) \notin blob]_vars

\* C6: within a run the stages perform their first operations in the order
\* discover, ingest, enrich, persist, and a stage performs its first
\* operation only when the stage before it has returned its complete output.
C6_StagesInOrder ==
    /\ \A a, b \in 1..Len(stages) :
         a < b => stageRank(stages[a]) < stageRank(stages[b])
    /\ "ingest" \in Range(stages) => scraped = site
    /\ "enrich" \in Range(stages) => ingestComplete
    /\ "persist" \in Range(stages) => ingestComplete /\ enrichComplete

\* a completed run that went through all four stages and wrote a record
C6_Witness ==
    /\ ppc = "completed"
    /\ stages = <<"discover", "ingest", "enrich", "persist">>
    /\ Len(embeddingResults) >= 1
    /\ db # {}

(***************************************************************************)
(* Batch update of embeddings: DatabaseService.batchUpdateEmbeddings and   *)
(* updatePaperEmbedding.                                                   *)
(***************************************************************************)
\* every column of a past_papers row; embedding is NoVector and
\* embeddingModel "none" while the row has no vector
PaperRow(id, u, emb, model, created, updated) ==
    [id |-> id, key |-> naturalKey(u), r2Url |-> r2Key(u), embedding |-> emb,
     embeddingModel |-> model, createdAt |-> created, lastUpdated |-> updated]

\* tables earlier runs can have left behind: rows without a vector, a row
\* with one, and two rows of one natural key
StoredTables ==
    { {},
      {PaperRow(1, 1, NoVector, "none", 0, 0)},
      {PaperRow(1, 1, NoVector, "none", 0, 0),
       PaperRow(2, 2, Vec(embeddingDimension, "finite"), "text-embedding-3-small", 0, 0)},
      {PaperRow(1, 1, NoVector, "none", 0, 0),
       PaperRow(2, 3, NoVector, "none", 0, 0),
       PaperRow(3, 2, NoVector, "none", 0, 0)} }

\* the validation of updatePaperEmbedding: 1536 entries, each of type
\* number and not NaN
updateRejected(vec) == vec.len # embeddingDimension \/ vec.vals = "notNumber"

\* an update whose where clause matches every row
whereAny(d, paperId) == d

\* .where(eq(pastPapersTable.id, paperId))
whereId(d, paperId) == { r \in d : r.id = paperId }

\* .set({embedding, embeddingModel, lastUpdated})
setEmbedding(r, vec, model, t) ==
    [r EXCEPT !.embedding = vec, !.embeddingModel = model, !.lastUpdated = t]

\* one iteration of the loop of batchUpdateEmbeddings; paperId 0 stands for
\* a result without paperId
UpdateEmbedding ==
    /\ ppc = "update"
    /\ IF pidx > Len(embeddingResults)
       THEN /\ ppc' = "updated"
            /\ UNCHANGED <<pidx, db, dbResults, now>>
       ELSE /\ LET er == embeddingResults[pidx]
               IN  IF ~er.success \/ er.vector = NoVector
                   THEN /\ dbResults' = Append(dbResults, [success |-> FALSE, paperId |-> 0])
                        /\ UNCHANGED <<db, now>>
                   ELSE \E lookupFault \in BOOLEAN :
                          IF ~lookupFinds(lookupFault, er.paper)
                          THEN /\ dbResults' = Append(dbResults, [success |-> FALSE, paperId |-> 0])
                               /\ UNCHANGED <<db, now>>
                          ELSE \E existingPaper \in { r \in db : r.key = naturalKey(er.paper) },
                                  updateFault \in BOOLEAN, t \in {now, now + 1} :
                                 /\ now' = t
                                 /\ IF updateRejected(er.vector) \/ updateFault
                                    THEN /\ dbResults' = Append(dbResults,
                                                [success |-> FALSE, paperId |-> existingPaper.id])
                                         /\ db' = db
                                    ELSE /\ dbResults' = Append(dbResults,
                                                [success |-> TRUE, paperId |-> existingPaper.id])
                                         /\ db' = (db \ whereId(db, existingPaper.id)) \cup
                                                { setEmbedding(r, er.vector, "text-embedding-3-small", t) :
                                                    r \in whereId(db, existingPaper.id) }
            /\ pidx' = pidx + 1
            /\ UNCHANGED ppc
    /\ UNCHANGED <<variant, runs, site, scraped, queue, wresults, embeddingResults,
                   stages, jobStatus, downloads>>
    /\ UNCHANGED <<blob, ivars, exceptClock>>

\* one batchUpdateEmbeddings call over the embedding results of a run
InitUpdate ==
    /\ scraper = "papa"
    /\ subjectUrl = [host |-> "elsewhere", seg |-> <<"lower", "lower", "digits">>]
    /\ dpc = "idle"
    /\ yearUrls = <<>>
    /\ yearIdx = 0
    /\ attempt = 0
    /\ pages = <<>>
    /\ allPapers = <<>>
    /\ requests = <<>>
    /\ failedYears = {}
    /\ waited = <<>>
    /\ derr = "none"
    /\ blob = {}
    /\ db \in StoredTables
    /\ papers = <<>>
    /\ skipIfExists = TRUE
    /\ concurrency = MaxConcurrency
    /\ ipc = "idle"
    /\ calls = 0
    /\ batchStart = 1
    /\ mpc = <<>>
    /\ attempts = <<>>
    /\ fetches = <<>>
    /\ lookup = <<>>
    /\ payload = <<>>
    /\ outcome = <<>>
    /\ results = <<>>
    /\ prevOk = {}
    /\ variant = "cli"
    /\ ppc = "update"
    /\ runs = 1
    /\ site \in CandLists
    /\ scraped = <<>>
    /\ queue = <<>>
    /\ pidx = 1
    /\ wresults = <<>>
    /\ embeddingResults \in EmbeddingLists("cli", site)
    /\ dbResults = <<>>
    /\ stages = <<>>
    /\ jobStatus = "none"
    /\ downloads = [u \in PaperIds |-> 0]
    /\ stored = <<>>
    /\ items = <<>>
    /\ epc = "idle"
    /\ ebatchStart = 1
    /\ estate = <<>>
    /\ eattempts = <<>>
    /\ eout = <<>>
    /\ eresults = <<>>
    /\ vcalls = <<>>
    /\ now = 1
    /\ JOB_STATUS = <<>>
    /\ background = {}
    /\ posted = 0
    /\ responses = <<>>
    /\ progressFiles = <<>>
    /\ sessionId = 0
    /\ processedPapers = {}
    /\ submitted = <<>>
    /\ interrupted = <<>>
    /\ fn = "none"
    /\ args = <<>>
    /\ returned = FALSE
    /\ ret = <<>>
    /\ requestTimes = <<>>
    /\ issued = <<>>
    /\ lpc = "idle"
    /\ texts = 0
    /\ lidx = 0
    /\ tries = 0
    /\ wakeAt = 0
    /\ unanswered = 0
    /\ rattempt = 0
    /\ waits = <<>>
    /\ caught = {}
    /\ unrecorded = {}

SpecUpdate == InitUpdate /\ [][UpdateEmbedding]_vars

\* the columns an update may not touch
keptColumns(r) == <<r.id, r.key, r.r2Url, r.createdAt>>

\* C21: a step of the batch-update path creates and removes no row, changes
\* at most one row, and the row it changes is a row of the result's item
\* that keeps its id, natural key, r2Url and createdAt
C21_UpdateTouchesOnlyVectorColumns ==
    [][ppc = "update" =>
          /\ { keptColumns(r) : r \in db' } = { keptColumns(r) : r \in db }
          /\ Cardinality(db') = Cardinality(db)
          /\ Cardinality(db \ db') <= 1
          /\ \A r \in db \ db' :
                /\ pidx <= Len(embeddingResults)
                /\ r.key = naturalKey(embeddingResults[pidx].paper)]_vars

\* an update succeeded on a table of several rows
C21_Witness ==
    /\ ppc = "update"
    /\ Cardinality(db) >= 2
    /\ \E n \in 1..Len(dbResults) : dbResults[n].success
    /\ \E r \in db : r.lastUpdated > 0 /\ r.embedding # NoVector

(***************************************************************************)
(* HTTP interface of the two workers: POST /api/scrape and                 *)
(* GET /api/jobs/{jobId}.                                                  *)
(***************************************************************************)
\* requests served in one behaviour
MaxRequests == 4

\* a response body without jobId
NoJob == 0

Response(route, asked, code, jobId, status, pending) ==
    [route |-> route, asked |-> asked, code |-> code, jobId |-> jobId,
     status |-> status, pending |-> pending]

\* handleScrapeRequest of both workers; generateJobId is taken to return a
\* fresh id, the number of the accepted request
handleScrapeRequest ==
    /\ variant \in {"worker", "job"}
    /\ Len(responses) < MaxRequests
    /\ \E body \in {"valid", "schemaError", "otherSite"} :
         IF body # "valid"
         THEN /\ responses' = Append(responses,
                                     Response("scrape", NoJob, 400, NoJob, "none", FALSE))
              /\ UNCHANGED <<JOB_STATUS, background, posted>>
         ELSE /\ posted' = posted + 1
              /\ background' = background \cup {posted + 1}
              /\ IF variant = "job"
                 THEN /\ JOB_STATUS' = (posted + 1 :> "queued") @@ JOB_STATUS
                      /\ responses' = Append(responses,
                             Response("scrape", NoJob, 202, posted + 1, "queued", TRUE))
                 ELSE /\ JOB_STATUS' = JOB_STATUS
                      /\ responses' = Append(responses,
                             Response("scrape", NoJob, 202, NoJob, "none", TRUE))
    /\ UNCHANGED <<svars, ivars, pvars, exceptApi>>

\* the status updateJobStatus writes next
nextStatus(status) ==
    IF status = "queued" THEN {"processing", "failed"}
    ELSE {"processing", "completed", "failed"}

\* processScrapeJob in the background: the job worker writes its progress with
\* updateJobStatus, the complete pipeline writes to no job store
backgroundStep(j) ==
    /\ j \in background
    /\ IF variant = "job"
       THEN \E s \in nextStatus(JOB_STATUS[j]) :
              /\ JOB_STATUS' = [JOB_STATUS EXCEPT ![j] = s]
              /\ background' = IF s \in {"completed", "failed"}
                               THEN background \ {j} ELSE background
       ELSE /\ background' = background \ {j}
            /\ JOB_STATUS' = JOB_STATUS
    /\ UNCHANGED <<posted, responses>>
    /\ UNCHANGED <<svars, ivars, pvars, exceptApi>>

\* GET /api/jobs/{jobId}: handleJobStatus of the job worker; the router of the
\* complete pipeline has no such route and answers 404 "Not found"
handleJobStatus(j) ==
    /\ variant \in {"worker", "job"}
    /\ Len(responses) < MaxRequests
    /\ responses' = Append(responses,
          IF variant = "job" /\ j \in DOMAIN JOB_STATUS
          THEN Response("status", j, 200, j, JOB_STATUS[j], j \in background)
          ELSE Response("status", j, 404, NoJob, "none", FALSE))
    /\ UNCHANGED <<JOB_STATUS, background, posted>>
    /\ UNCHANGED <<svars, ivars, pvars, exceptApi>>

ANext ==
    \/ handleScrapeRequest
    \/ \E j \in background : backgroundStep(j)
    \/ \E j \in 1..MaxRequests : handleJobStatus(j)

\* requests to one deployed worker
InitApi ==
    /\ scraper = "papa"
    /\ subjectUrl = [host |-> "elsewhere", seg |-> <<"lower", "lower", "digits">>]
    /\ dpc = "idle"
    /\ yearUrls = <<>>
    /\ yearIdx = 0
    /\ attempt = 0
    /\ pages = <<>>
    /\ allPapers = <<>>
    /\ requests = <<>>
    /\ failedYears = {}
    /\ waited = <<>>
    /\ derr = "none"
    /\ blob = {}
    /\ db = {}
    /\ papers = <<>>
    /\ skipIfExists = TRUE
    /\ concurrency = MaxConcurrency
    /\ ipc = "idle"
    /\ calls = 0
    /\ batchStart = 1
    /\ mpc = <<>>
    /\ attempts = <<>>
    /\ fetches = <<>>
    /\ lookup = <<>>
    /\ payload = <<>>
    /\ outcome = <<>>
    /\ results = <<>>
    /\ prevOk = {}
    /\ variant \in {"worker", "job"}
    /\ ppc = "none"
    /\ runs = 0
    /\ site = <<>>
    /\ scraped = <<>>
    /\ queue = <<>>
    /\ pidx = 0
    /\ wresults = <<>>
    /\ embeddingResults = <<>>
    /\ dbResults = <<>>
    /\ stages = <<>>
    /\ jobStatus = "none"
    /\ downloads = [u \in PaperIds |-> 0]
    /\ stored = <<>>
    /\ items = <<>>
    /\ epc = "idle"
    /\ ebatchStart = 1
    /\ estate = <<>>
    /\ eattempts = <<>>
    /\ eout = <<>>
    /\ eresults = <<>>
    /\ vcalls = <<>>
    /\ now = 0
    /\ JOB_STATUS = <<>>
    /\ background = {}
    /\ posted = 0
    /\ responses = <<>>
    /\ progressFiles = <<>>
    /\ sessionId = 0
    /\ processedPapers = {}
    /\ submitted = <<>>
    /\ interrupted = <<>>
    /\ fn = "none"
    /\ args = <<>>
    /\ returned = FALSE
    /\ ret = <<>>
    /\ requestTimes = <<>>
    /\ issued = <<>>
    /\ lpc = "idle"
    /\ texts = 0
    /\ lidx = 0
    /\ tries = 0
    /\ wakeAt = 0
    /\ unanswered = 0
    /\ rattempt = 0
    /\ waits = <<>>
    /\ caught = {}
    /\ unrecorded = {}

SpecApi == InitApi /\ [][ANext]_vars

\* the 202 answers carry a job id that no earlier answer carried, are sent
\* while the pipeline is still running, and every later status request for
\* that id is answered with the job's status
acceptedUnderJobId ==
    \A n \in 1..Len(responses) :
        (responses[n].route = "scrape" /\ responses[n].code = 202) =>
            /\ responses[n].jobId # NoJob
            /\ responses[n].pending
            /\ \A m \in 1..(n - 1) :
                   responses[m].route = "scrape" => responses[m].jobId # responses[n].jobId
            /\ \A m \in (n + 1)..Len(responses) :
                   (responses[m].route = "status" /\ responses[m].asked = responses[n].jobId)
                       => responses[m].code = 200

\* the job worker (src/worker/index.ts) answers as described
jobWorkerAnswersUnderJobId == variant = "job" => acceptedUnderJobId

\* C22: a valid POST is answered 202 with a new job id while the pipeline
\* still runs, and from then on GET status for that id reports the job
C22_AcceptedJobIsReportedUnderItsId == acceptedUnderJobId

(***************************************************************************)
(* Resume: ProgressTracker and its use by PastPapersScraperApp.run.        *)
(***************************************************************************)
\* latest reading of the clock
MaxTime == 3

\* ProgressTracker.generateSessionId: the last two path segments of the
\* subject URL, which is the same in every run here, and Date.now()
generateSessionId(t) == t

\* loadProgress: the saved state of the session, if its file exists
loadProgress(id) == IF id \in DOMAIN progressFiles THEN progressFiles[id] ELSE {}

\* saveProgress writes the state to the file of the session
saveProgress(id, processed) ==
    [s \in DOMAIN progressFiles \cup {id} |->
        IF s = id THEN processed ELSE progressFiles[s]]

\* getProgress: Math.round(processed / total * 100)
getProgress(processed, total) == (200 * processed + total) \div (2 * total)

\* what the resume steps leave alone
nonResume ==
    <<variant, scraped, wresults, embeddingResults, dbResults, stages, jobStatus,
      downloads, dvars, evars, svars, apiVars, callVars, limiterVars, retryVars,
      jobVars, papers, skipIfExists, concurrency,
      ipc, calls, batchStart, mpc, attempts, fetches, lookup, payload, outcome,
      prevOk>>

\* run() up to its first step: a tracker is built for a newly generated
\* session id, and setCurrentStep saves its state
ResumeStart ==
    /\ variant = "cli" /\ ppc = "idle"
    /\ runs < MaxRuns
    /\ runs' = runs + 1
    /\ sessionId' = generateSessionId(now)
    /\ processedPapers' = loadProgress(sessionId')
    /\ progressFiles' = saveProgress(sessionId', processedPapers')
    /\ ppc' = "scraping-urls"
    /\ UNCHANGED <<submitted, interrupted, site, queue, pidx, results>>
    /\ UNCHANGED <<nonResume, now>>

\* step 1 and the start of step 2: getUnprocessed filters what discovery
\* returned, and batchStorePdfs is called with the rest
SubmitUnprocessed ==
    /\ ppc = "scraping-urls"
    /\ queue' = SelectSeq(site, LAMBDA u : u \notin processedPapers)
    /\ IF queue' = <<>>
       THEN /\ ppc' = "idle"
            /\ UNCHANGED <<submitted, results>>
       ELSE /\ submitted' = [submitted EXCEPT ![runs] = queue']
            /\ \E f \in [1..Len(queue') -> {Stored, Skipped, Failure("http5xx")}] :
                  results' = [k \in 1..Len(queue') |->
                                 [paper |-> queue'[k], result |-> f[k]]]
            /\ ppc' = "downloading-pdfs"
    /\ pidx' = 1
    /\ UNCHANGED <<runs, sessionId, processedPapers, progressFiles, interrupted, site>>
    /\ UNCHANGED <<nonResume, now>>

\* storageResults.forEach: markProcessed for each successful result
MarkProcessed ==
    /\ ppc = "downloading-pdfs"
    /\ IF pidx > Len(results)
       THEN /\ ppc' = "storing-database"
            /\ UNCHANGED <<pidx, processedPapers, progressFiles>>
       ELSE /\ processedPapers' =
                  IF results[pidx].result.success
                  THEN processedPapers \cup {results[pidx].paper}
                  ELSE processedPapers
            /\ progressFiles' = saveProgress(sessionId, processedPapers')
            /\ pidx' = pidx + 1
            /\ UNCHANGED ppc
    /\ UNCHANGED <<runs, sessionId, submitted, interrupted, site, queue, results>>
    /\ UNCHANGED <<nonResume, now>>

\* the rest of run(): the later steps end well and cleanup removes the file
\* when the progress is 100%, or they throw and the state is saved
FinishRun ==
    /\ ppc = "storing-database"
    /\ \E threw \in BOOLEAN :
          progressFiles' =
              IF ~threw /\ getProgress(Cardinality(processedPapers), Len(site)) = 100
              THEN [s \in DOMAIN progressFiles \ {sessionId} |-> progressFiles[s]]
              ELSE saveProgress(sessionId, processedPapers)
    /\ ppc' = "idle"
    /\ UNCHANGED <<runs, sessionId, processedPapers, submitted, interrupted, site,
                   queue, pidx, results>>
    /\ UNCHANGED <<nonResume, now>>

\* the process is killed in the middle of a run
Interrupt ==
    /\ ppc \in {"scraping-urls", "downloading-pdfs", "storing-database"}
    /\ ppc' = "idle"
    /\ interrupted' = [interrupted EXCEPT ![runs] = processedPapers]
    /\ UNCHANGED <<runs, sessionId, processedPapers, progressFiles, submitted, site,
                   queue, pidx, results>>
    /\ UNCHANGED <<nonResume, now>>

\* time passes
Tick ==
    /\ now < MaxTime
    /\ now' = now + 1
    /\ UNCHANGED <<progressVars, runs, site, queue, pidx, results, ppc>>
    /\ UNCHANGED nonResume

RNext ==
    \/ ResumeStart
    \/ SubmitUnprocessed
    \/ MarkProcessed
    \/ FinishRun
    \/ Interrupt
    \/ Tick

\* runs of the CLI on one subject URL, some of them killed
InitResume ==
    /\ scraper = "papa"
    /\ subjectUrl = [host |-> "elsewhere", seg |-> <<"lower", "lower", "digits">>]
    /\ dpc = "idle"
    /\ yearUrls = <<>>
    /\ yearIdx = 0
    /\ attempt = 0
    /\ pages = <<>>
    /\ allPapers = <<>>
    /\ requests = <<>>
    /\ failedYears = {}
    /\ waited = <<>>
    /\ derr = "none"
    /\ blob = {}
    /\ db = {}
    /\ papers = <<>>
    /\ skipIfExists = TRUE
    /\ concurrency = MaxConcurrency
    /\ ipc = "idle"
    /\ calls = 0
    /\ batchStart = 1
    /\ mpc = <<>>
    /\ attempts = <<>>
    /\ fetches = <<>>
    /\ lookup = <<>>
    /\ payload = <<>>
    /\ outcome = <<>>
    /\ results = <<>>
    /\ prevOk = {}
    /\ variant = "cli"
    /\ ppc = "idle"
    /\ runs = 0
    /\ site \in CandLists \ {<<>>}
    /\ scraped = <<>>
    /\ queue = <<>>
    /\ pidx = 0
    /\ wresults = <<>>
    /\ embeddingResults = <<>>
    /\ dbResults = <<>>
    /\ stages = <<>>
    /\ jobStatus = "none"
    /\ downloads = [u \in PaperIds |-> 0]
    /\ stored = <<>>
    /\ items = <<>>
    /\ epc = "idle"
    /\ ebatchStart = 1
    /\ estate = <<>>
    /\ eattempts = <<>>
    /\ eout = <<>>
    /\ eresults = <<>>
    /\ vcalls = <<>>
    /\ now = 1
    /\ JOB_STATUS = <<>>
    /\ background = {}
    /\ posted = 0
    /\ responses = <<>>
    /\ progressFiles = <<>>
    /\ sessionId = 0
    /\ processedPapers = {}
    /\ submitted = [r \in 1..MaxRuns |-> <<>>]
    /\ interrupted = [r \in 1..MaxRuns |-> {}]
    /\ fn = "none"
    /\ args = <<>>
    /\ returned = FALSE
    /\ ret = <<>>
    /\ requestTimes = <<>>
    /\ issued = <<>>
    /\ lpc = "idle"
    /\ texts = 0
    /\ lidx = 0
    /\ tries = 0
    /\ wakeAt = 0
    /\ unanswered = 0
    /\ rattempt = 0
    /\ waits = <<>>
    /\ caught = {}
    /\ unrecorded = {}

SpecResume == InitResume /\ [][RNext]_vars

\* what the runs killed before run r had recorded as processed
recordedBefore(r) == UNION { interrupted[q] : q \in 1..(r - 1) }

\* a second run that starts at the clock reading of the killed first run
\* gets its session id and skips what that run recorded
resumeWorksWithinOneSession ==
    (runs = 2 /\ ppc # "idle" /\ ppc # "scraping-urls" /\ interrupted[1] # {}
        /\ sessionId \in DOMAIN progressFiles /\ now = 1)
        => Range(submitted[2]) \cap interrupted[1] = {}

\* C23: no paper that an interrupted run had recorded as processed is handed
\* to ingest by a later run on the same subject URL
C23_RestartSkipsRecordedPapers ==
    \A r \in 1..runs : Range(submitted[r]) \cap recordedBefore(r) = {}

(***************************************************************************)
(* Properties of the year window.                                          *)
(***************************************************************************)
\* the loop of scrapePapers has gone past folder i
passed(i) == i < yearIdx \/ (dpc = "done" /\ i <= Len(yearUrls))

\* C24: with startYear = 2024 and endYear = 2020, a folder whose year parses
\* has its page requested exactly if 2020 <= year <= 2024; a folder outside
\* the window is passed over and the call fails for no such folder
C24_YearWindowIsInclusive ==
    scraper = "papa" =>
        /\ \A i \in 1..Len(yearUrls) :
              (passed(i) /\ ~parseYearThrows(yearUrls[i])) =>
                  (requested(i) <=> (endYear <= yearUrls[i] /\ yearUrls[i] <= startYear))
        /\ (dpc = "failed" /\ derr = "yearParse") => parseYearThrows(yearUrls[yearIdx])

\* a call that passed over a 2019 or 2025 folder and then read a 2020 or
\* 2024 folder, and returned
C24_Witness ==
    /\ scraper = "papa" /\ dpc = "done" /\ derr = "none"
    /\ Len(yearUrls) = 2
    /\ yearUrls[1] \in {2019, 2025} /\ ~requested(1)
    /\ yearUrls[2] \in {2020, 2024} /\ requested(2)

(***************************************************************************)
(* Storage keys: generateStorageKey, the key of ScraperStorageManager and  *)
(* generateR2Key of the worker.                                            *)
(***************************************************************************)
pastPapersPrefix == <<"p", "a", "s", "t", "-", "p", "a", "p", "e", "r", "s">>
dotPdf == <<".", "p", "d", "f">>

\* `${paperNumber}_${paperType}.pdf`
leafOf(metadata) == metadata.paperNumber \o <<"_">> \o metadata.paperType \o dotPdf

\* a key that ends in the file name of the paper
storageKeyOfFilename(metadata) ==
    join(<<pastPapersPrefix, toLowerCase(metadata.examBoard),
           toLowerCase(metadata.level), metadata.subjectCode, metadata.year,
           replaceSlashes(metadata.session), metadata.filename>>, "/")

\* generateStorageKey of the URL parser
generateStorageKey(metadata) ==
    join(<<pastPapersPrefix, toLowerCase(metadata.examBoard),
           toLowerCase(metadata.level), metadata.subjectCode, metadata.year,
           replaceSlashes(metadata.session), leafOf(metadata)>>, "/")

\* the key storePastPaper and hasPastPaper build
storePastPaperKey(metadata) ==
    join(<<pastPapersPrefix, toLowerCase(metadata.examBoard),
           toLowerCase(metadata.level), metadata.subjectCode, metadata.year,
           metadata.session, leafOf(metadata)>>, "/")

\* generateR2Key of WorkersR2Service; the exam board is always caie
generateR2Key(metadata) ==
    join(<<pastPapersPrefix, <<"c", "a", "i", "e">>,
           toLowerCase(metadata.level), metadata.subjectCode, metadata.year,
           metadata.session, leafOf(metadata)>>, "/")

keyBuilders == {"generateStorageKey", "storePastPaper", "generateR2Key"}

renderStorageKey(builder, metadata) ==
    IF builder = "generateStorageKey" THEN generateStorageKey(metadata)
    ELSE IF builder = "storePastPaper" THEN storePastPaperKey(metadata)
    ELSE generateR2Key(metadata)

\* paper identities: the natural key fields and the fields that say where
\* the paper came from
PaperIdentities ==
    [examBoard : {<<"C", "I", "E">>, <<"c", "i", "e">>},
     level : {<<"I", "G">>, <<"i", "g">>},
     subjectCode : {<<"0", "5", "8", "0">>},
     year : {<<"2", "0", "2", "4">>},
     session : {<<"M", "a", "y", "/", "J", "u", "n", "e">>,
                <<"M", "a", "y", "-", "J", "u", "n", "e">>,
                <<"M", "a", "r", "c", "h">>},
     paperNumber : {<<"1", "2">>, <<"4", "2">>},
     paperType : {<<"q", "p">>},
     originalUrl : {<<"u", "1">>, <<"u", "2">>},
     downloadUrl : {<<"u", "1">>, <<"u", "2">>},
     filename : {<<"f", "1">>, <<"f", "2">>}]

\* the key of two identities is built
RenderStorageKey ==
    /\ fn \in keyBuilders
    /\ ~returned
    /\ returned' = TRUE
    /\ ret' = <<renderStorageKey(fn, args[1]), renderStorageKey(fn, args[2])>>
    /\ UNCHANGED <<fn, args>>
    /\ UNCHANGED <<svars, ivars, pvars, exceptCall>>

(***************************************************************************)
(* File names: parsePaperFilename of the two PapaCambridge scrapers.       *)
(***************************************************************************)
QP == <<"q", "p">>
MS == <<"m", "s">>
GT == <<"g", "t">>
ER == <<"e", "r">>
CI == <<"c", "i">>
PaperTypes == {QP, MS, GT, ER, CI}

\* the Cambridge file name of a paper: 0580_s24_ms_12.pdf
renderFilename(syllabus, sessionCode, year2, type, variantNo) ==
    syllabus \o <<"_">> \o sessionCode \o year2 \o <<"_">> \o type \o <<"_">>
        \o variantNo \o dotPdf

\* the part of a name before its final ".pdf"
stem(name) == SubSeq(name, 1, Len(name) - Len(dotPdf))

\* [sw]\d+
isSessionToken(t) == Len(t) >= 2 /\ t[1] \in {"s", "w"} /\ allIn(Tail(t), Digit)

\* /(\d+)_([sw]\d+)_([a-z]+)(?:_(\d+))?\.pdf$/ on the lowercased name: the
\* groups typeCode and variant, variant <<>> when the group did not take part
cambridgeMatch(name) ==
    IF ~endsWith(name, dotPdf) THEN [matched |-> FALSE]
    ELSE LET t == split(stem(name), "_")
             n == Len(t)
         IN  IF /\ n >= 4
                /\ allIn(t[n], Digit) /\ allIn(t[n - 1], Lower)
                /\ isSessionToken(t[n - 2])
                /\ t[n - 3] # <<>> /\ t[n - 3][Len(t[n - 3])] \in Digit
             THEN [matched |-> TRUE, typeCode |-> t[n - 1], variant |-> t[n]]
             ELSE IF /\ n >= 3
                     /\ allIn(t[n], Lower)
                     /\ isSessionToken(t[n - 1])
                     /\ t[n - 2] # <<>> /\ t[n - 2][Len(t[n - 2])] \in Digit
             THEN [matched |-> TRUE, typeCode |-> t[n], variant |-> <<>>]
             ELSE [matched |-> FALSE]

\* the longest run of digits of s that starts at position k
RECURSIVE digitsAt(_, _)
digitsAt(s, k) ==
    IF k > Len(s) \/ s[k] \notin Digit THEN <<>>
    ELSE <<s[k]>> \o digitsAt(s, k + 1)

\* where the digits of /(?:paper|p)[-_]?(\d+)/ start when the word ends
\* before position j
digitsStart(s, j) == IF j <= Len(s) /\ s[j] \in {"-", "_"} THEN j + 1 ELSE j

\* /(?:paper|p)[-_]?(\d+)/i: the digits of the leftmost match, <<>> if none
paperMatch(name) ==
    LET word == <<"p", "a", "p", "e", "r">>
        hit(i) ==
            IF /\ i + 4 <= Len(name)
               /\ SubSeq(name, i, i + 4) = word
               /\ digitsAt(name, digitsStart(name, i + 5)) # <<>>
            THEN digitsAt(name, digitsStart(name, i + 5))
            ELSE digitsAt(name, digitsStart(name, i + 1))
        starts == { i \in 1..Len(name) : name[i] = "p" /\ hit(i) # <<>> }
    IN  IF starts = {} THEN <<>>
        ELSE hit(CHOOSE i \in starts : \A j \in starts : i <= j)

\* /(\d+)(?:\.pdf)?$/: the digits at the end of the name or before ".pdf"
numberMatch(name) ==
    LET body == IF endsWith(name, dotPdf) /\ stem(name) # <<>>
                   /\ stem(name)[Len(stem(name))] \in Digit
                THEN stem(name) ELSE name
        starts == { k \in 1..Len(body) : \A h \in k..Len(body) : body[h] \in Digit }
    IN  IF starts = {} THEN <<>>
        ELSE SubSeq(body, CHOOSE k \in starts : \A j \in starts : k <= j, Len(body))

\* the fallback type of a name that is not in the Cambridge format
fallbackType(parser, name) ==
    LET has(w) == includes(name, w)
        long == parser = "cli"
    IN  IF has(MS) \/ (long /\ has(<<"m", "a", "r", "k">>)) THEN MS
        ELSE IF \/ has(GT)
                \/ long /\ has(<<"g", "r", "a", "d", "e">>)
                \/ long /\ has(<<"t", "h", "r", "e", "s", "h", "o", "l", "d">>)
        THEN GT
        ELSE IF has(ER) \/ (long /\ has(<<"e", "x", "a", "m", "i", "n", "e", "r">>))
        THEN ER
        ELSE IF \/ has(CI)
                \/ long /\ has(<<"c", "o", "n", "f", "i", "d", "e", "n", "t", "i", "a", "l">>)
        THEN CI
        ELSE QP

\* the fallback paper number
fallbackNumber(parser, name) ==
    IF parser = "cli" /\ paperMatch(name) # <<>> THEN paperMatch(name)
    ELSE IF numberMatch(name) # <<>> THEN numberMatch(name)
    ELSE <<"1">>

\* a parser whose switch knows question papers and mark schemes only
parseQpMsOnly(parser, filename) ==
    LET name == toLowerCase(filename)
        m == cambridgeMatch(name)
    IN  IF m.matched
        THEN [type |-> IF m.typeCode \in {QP, MS} THEN m.typeCode ELSE QP,
              paperNumber |-> IF m.variant # <<>> THEN m.variant ELSE <<"1">>]
        ELSE [type |-> fallbackType(parser, name),
              paperNumber |-> fallbackNumber(parser, name)]

\* parsePaperFilename of PapaCambridgeScraper ("cli") and of
\* WorkersPapaCambridgeScraper ("worker")
parsePaperFilename(parser, filename) ==
    LET name == toLowerCase(filename)
        m == cambridgeMatch(name)
    IN  IF m.matched
        THEN [type |-> IF m.typeCode \in PaperTypes THEN m.typeCode ELSE QP,
              paperNumber |-> IF m.variant # <<>> THEN m.variant ELSE <<"1">>]
        ELSE [type |-> fallbackType(parser, name),
              paperNumber |-> fallbackNumber(parser, name)]

\* the combinations a Cambridge file name is rendered from
FilenameParts ==
    [parser : {"cli", "worker"},
     syllabus : {<<"0", "5", "8", "0">>, <<"9", "7", "0", "9">>},
     sessionCode : {<<"s">>, <<"w">>, <<"m">>},
     year2 : {<<"2", "4">>, <<"1", "9">>},
     type : PaperTypes,
     variant : {<<"1">>, <<"1", "2">>, <<"4", "2">>}]

\* a rendered file name is parsed
ParsePaperFilename ==
    /\ fn = "parsePaperFilename"
    /\ ~returned
    /\ returned' = TRUE
    /\ ret' = parsePaperFilename(args.parser,
                  renderFilename(args.syllabus, args.sessionCode, args.year2,
                                 args.type, args.variant))
    /\ UNCHANGED <<fn, args>>
    /\ UNCHANGED <<svars, ivars, pvars, exceptCall>>

(***************************************************************************)
(* PDF URLs of the second site: parsePaperUrl, isValidPaperFilename and    *)
(* the loop of scrapeSession over the file names of a page.                *)
(***************************************************************************)
\* SESSION_MAPPING, for the codes a file name can carry
SESSION_MAPPING ==
    << <<<<"m">>, <<"M", "a", "r", "c", "h">>>>,
       <<<<"s">>, <<"M", "a", "y", "-", "J", "u", "n", "e">>>>,
       <<<<"w">>, <<"O", "c", "t", "-", "N", "o", "v">>>>,
       <<<<"s", "p">>, <<"F", "e", "b", "-", "M", "a", "r", "c", "h">>>>,
       <<<<"s", "u">>, <<"M", "a", "y", "-", "J", "u", "n", "e">>>>,
       <<<<"a", "u">>, <<"O", "c", "t", "-", "N", "o", "v">>>>,
       <<<<"m", "a", "r", "c", "h">>, <<"M", "a", "r", "c", "h">>>> >>

\* SESSION_MAPPING[sessionCode] || session
mappedSession(sessionCode, session) ==
    IF \E i \in 1..Len(SESSION_MAPPING) : SESSION_MAPPING[i][1] = sessionCode
    THEN SESSION_MAPPING[CHOOSE i \in 1..Len(SESSION_MAPPING) :
                             SESSION_MAPPING[i][1] = sessionCode][2]
    ELSE session

\* url.pathname.split('/').filter(Boolean)
pathPartsOf(pathname) == SelectSeq(split(pathname, "/"), LAMBDA p : p # <<>>)

\* the last '-' of a string, 0 if it has none
lastDash(s) ==
    IF \A k \in 1..Len(s) : s[k] # "-" THEN 0
    ELSE CHOOSE k \in 1..Len(s) : s[k] = "-" /\ \A h \in (k + 1)..Len(s) : s[h] # "-"

\* /^(\d+)_([a-z]+)(\d{2})_([a-z]+)_(\d+)\.pdf$/
filenameMatch(filename) ==
    IF ~endsWith(filename, dotPdf) THEN [matched |-> FALSE]
    ELSE LET t == split(stem(filename), "_")
         IN  IF /\ Len(t) = 4
                /\ allIn(t[1], Digit)
                /\ Len(t[2]) >= 3
                /\ allIn(SubSeq(t[2], 1, Len(t[2]) - 2), Lower)
                /\ allIn(SubSeq(t[2], Len(t[2]) - 1, Len(t[2])), Digit)
                /\ allIn(t[3], Lower)
                /\ allIn(t[4], Digit)
             THEN [matched |-> TRUE,
                   fileSubjectCode |-> t[1],
                   sessionCode |-> SubSeq(t[2], 1, Len(t[2]) - 2),
                   yearCode |-> SubSeq(t[2], Len(t[2]) - 1, Len(t[2])),
                   paperType |-> t[3],
                   paperNumber |-> t[4]]
             ELSE [matched |-> FALSE]

Thrown == [ok |-> FALSE]

\* parsePaperUrl; index i of pathParts in the source is position i + 1 here,
\* and pathParts[5] of a path of five parts is undefined, so that
\* filename.match throws. warnings holds what console.warn was called for
parsePaperUrl(pdfUrl) ==
    LET pathParts == pathPartsOf(pdfUrl.pathname)
        at(i) == pathParts[i + 1]
    IN  IF Len(pathParts) < 5 \/ Len(pathParts) < 6 THEN Thrown
        ELSE LET examBoard == toLowerCase(at(1))
                 subjectWithCode == at(3)
                 yearSession == at(4)
                 k == lastDash(subjectWithCode)
                 file == filenameMatch(at(5))
             IN  IF ~(k > 1 /\ allIn(SubSeq(subjectWithCode, k + 1, Len(subjectWithCode)), Digit))
                 THEN Thrown
                 ELSE IF ~(/\ Len(yearSession) >= 6
                           /\ allIn(SubSeq(yearSession, 1, 4), Digit)
                           /\ yearSession[5] = "-")
                 THEN Thrown
                 ELSE IF ~file.matched THEN Thrown
                 ELSE IF file.paperType \notin {QP, MS} THEN Thrown
                 ELSE LET subjectCode == SubSeq(subjectWithCode, k + 1, Len(subjectWithCode))
                          year == SubSeq(yearSession, 1, 4)
                      IN  [ok |-> TRUE,
                           value |->
                             [examBoard |-> IF examBoard = <<"c", "i", "e">>
                                            THEN <<"C", "a", "m", "b", "r", "i", "d", "g", "e">> ELSE examBoard,
                              level |-> at(2),
                              subject |-> SubSeq(subjectWithCode, 1, k - 1),
                              subjectCode |-> subjectCode,
                              year |-> year,
                              session |-> mappedSession(file.sessionCode,
                                              SubSeq(yearSession, 6, Len(yearSession))),
                              paperNumber |-> file.paperNumber,
                              paperType |-> file.paperType],
                           warnings |->
                             (IF file.fileSubjectCode # subjectCode
                              THEN {"subjectCode"} ELSE {})
                             \cup (IF <<"2", "0">> \o file.yearCode # year
                                   THEN {"year"} ELSE {})]

\* a pattern that admits every type code
isPaperFilenameOfAnyType(filename) == filenameMatch(toLowerCase(filename)).matched

\* isValidPaperFilename: /^\d{4}_[a-z]+\d{2}_(qp|ms)_\d+\.pdf$/i
isValidPaperFilename(filename) ==
    LET file == filenameMatch(toLowerCase(filename))
    IN  /\ file.matched
        /\ Len(file.fileSubjectCode) = 4
        /\ file.paperType \in {QP, MS}

\* `${sessionUrl}${filename}`: the name is appended to the query when the
\* session URL has one, as the URLs of discoverDirectories do
fullUrlOf(sessionUrl, filename) ==
    IF sessionUrl.search # <<>>
    THEN [sessionUrl EXCEPT !.search = sessionUrl.search \o filename]
    ELSE [sessionUrl EXCEPT !.pathname = sessionUrl.pathname \o filename]

\* one file name of the loop of scrapeSession: the candidate it pushes, if any
sessionCandidate(sessionUrl, filename) ==
    IF isValidPaperFilename(filename)
    THEN LET parsed == parsePaperUrl(fullUrlOf(sessionUrl, filename))
         IN  IF parsed.ok THEN [emitted |-> TRUE, metadata |-> parsed.value]
             ELSE [emitted |-> FALSE]
    ELSE [emitted |-> FALSE]

dirCie == <<"/", "c", "i", "e", "/">>
canonicalDir(code, year) ==
    <<"/", "c", "i", "e", "/", "I", "G", "C", "S", "E", "/", "M", "a", "t", "h", "e", "m", "a", "t", "i", "c", "s", "-">> \o code \o <<"/">> \o year
        \o <<"-", "M", "a", "r", "c", "h", "/">>

\* the PDF URLs parsePaperUrl is called with: the canonical path, or the
\* canonical path below one more directory; the codes and years of the path
\* and of the file name are chosen apart
PdfUrlParts ==
    [below : {<<>>, <<"/", "x">>},
     code : {<<"0", "5", "8", "0">>, <<"9", "7", "0", "9">>},
     year : {<<"2", "0", "2", "4">>, <<"2", "0", "2", "3">>},
     fileCode : {<<"0", "5", "8", "0">>, <<"9", "7", "0", "9">>},
     sessionCode : {<<"m">>, <<"s">>},
     year2 : {<<"2", "4">>, <<"2", "3">>},
     type : {QP, MS, GT}]

pdfUrlOf(p) ==
    [pathname |-> p.below \o canonicalDir(p.code, p.year)
                    \o renderFilename(p.fileCode, p.sessionCode, p.year2, p.type,
                                      <<"4", "2">>),
     search |-> <<>>]

\* parsePaperUrl is called
ParsePaperUrl ==
    /\ fn = "parsePaperUrl"
    /\ ~returned
    /\ returned' = TRUE
    /\ ret' = parsePaperUrl(pdfUrlOf(args))
    /\ UNCHANGED <<fn, args>>
    /\ UNCHANGED <<svars, ivars, pvars, exceptCall>>

\* the session URLs of discoverDirectories, `${baseUrl}?dir=...`: the base is
\* the subject URL without its query, here /cie/ or a path of six parts
SessionUrls ==
    { [pathname |-> dirCie, search |-> <<"?", "d", "i", "r", "=", "d", "/">>],
      [pathname |-> <<"/", "x">> \o canonicalDir(<<"0", "5", "8", "0">>, <<"2", "0", "2", "4">>)
                      \o renderFilename(<<"0", "5", "8", "0">>, <<"m">>, <<"2", "4">>,
                                        QP, <<"4", "2">>),
       search |-> <<"?", "d", "i", "r", "=", "d", "/">>] }

\* the file names a session page can hold
SessionFileParts ==
    [sessionUrl : SessionUrls,
     fileCode : {<<"0", "5", "8", "0">>, <<"5", "8", "0">>},
     sessionCode : {<<"m">>, <<"s">>, <<"2">>},
     year2 : {<<"2", "4">>, <<"4">>},
     type : {QP, MS, GT, ER},
     number : {<<"4", "2">>, <<"x">>}]

\* the loop of scrapeSession takes one file name
ScrapeSessionFile ==
    /\ fn = "scrapeSession"
    /\ ~returned
    /\ returned' = TRUE
    /\ ret' = sessionCandidate(args.sessionUrl,
                  renderFilename(args.fileCode, args.sessionCode, args.year2,
                                 args.type, args.number))
    /\ UNCHANGED <<fn, args>>
    /\ UNCHANGED <<svars, ivars, pvars, exceptCall>>

FNext ==
    \/ RenderStorageKey
    \/ ParsePaperFilename
    \/ ParsePaperUrl
    \/ ScrapeSessionFile

\* one call of a function of the metadata codec
InitCodec ==
    /\ scraper = "papa"
    /\ subjectUrl = [host |-> "elsewhere", seg |-> <<"lower", "lower", "digits">>]
    /\ dpc = "idle"
    /\ yearUrls = <<>>
    /\ yearIdx = 0
    /\ attempt = 0
    /\ pages = <<>>
    /\ allPapers = <<>>
    /\ requests = <<>>
    /\ failedYears = {}
    /\ waited = <<>>
    /\ derr = "none"
    /\ blob = {}
    /\ db = {}
    /\ papers = <<>>
    /\ skipIfExists = TRUE
    /\ concurrency = MaxConcurrency
    /\ ipc = "idle"
    /\ calls = 0
    /\ batchStart = 1
    /\ mpc = <<>>
    /\ attempts = <<>>
    /\ fetches = <<>>
    /\ lookup = <<>>
    /\ payload = <<>>
    /\ outcome = <<>>
    /\ results = <<>>
    /\ prevOk = {}
    /\ variant = "none"
    /\ ppc = "none"
    /\ runs = 0
    /\ site = <<>>
    /\ scraped = <<>>
    /\ queue = <<>>
    /\ pidx = 0
    /\ wresults = <<>>
    /\ embeddingResults = <<>>
    /\ dbResults = <<>>
    /\ stages = <<>>
    /\ jobStatus = "none"
    /\ downloads = [u \in PaperIds |-> 0]
    /\ stored = <<>>
    /\ items = <<>>
    /\ epc = "idle"
    /\ ebatchStart = 1
    /\ estate = <<>>
    /\ eattempts = <<>>
    /\ eout = <<>>
    /\ eresults = <<>>
    /\ vcalls = <<>>
    /\ now = 0
    /\ JOB_STATUS = <<>>
    /\ background = {}
    /\ posted = 0
    /\ responses = <<>>
    /\ progressFiles = <<>>
    /\ sessionId = 0
    /\ processedPapers = {}
    /\ submitted = <<>>
    /\ interrupted = <<>>
    /\ returned = FALSE
    /\ ret = <<>>
    /\ \/ fn \in keyBuilders /\ args \in PaperIdentities \X PaperIdentities
       \/ fn = "parsePaperFilename" /\ args \in FilenameParts
       \/ fn = "parsePaperUrl" /\ args \in PdfUrlParts
       \/ fn = "scrapeSession" /\ args \in SessionFileParts
    /\ requestTimes = <<>>
    /\ issued = <<>>
    /\ lpc = "idle"
    /\ texts = 0
    /\ lidx = 0
    /\ tries = 0
    /\ wakeAt = 0
    /\ unanswered = 0
    /\ rattempt = 0
    /\ waits = <<>>
    /\ caught = {}
    /\ unrecorded = {}

SpecCodec == InitCodec /\ [][FNext]_vars

(***************************************************************************)
(* Properties of the metadata codec.                                       *)
(***************************************************************************)
naturalKeyOf(identity) ==
    <<identity.examBoard, identity.level, identity.subjectCode, identity.year,
      identity.session, identity.paperNumber, identity.paperType>>

\* C25: two identities with equal exam board, level, subject code, year,
\* session, paper number and paper type get the same storage key from each
\* key builder, whatever their originalUrl, downloadUrl and filename
C25_EqualNaturalKeysRenderEqualKeys ==
    (fn \in keyBuilders /\ returned /\ naturalKeyOf(args[1]) = naturalKeyOf(args[2]))
        => ret[1] = ret[2]

\* keys were built for two identities that agree in the natural key and
\* differ in originalUrl, downloadUrl and filename
C25_Witness ==
    /\ fn \in keyBuilders /\ returned
    /\ naturalKeyOf(args[1]) = naturalKeyOf(args[2])
    /\ args[1].originalUrl # args[2].originalUrl
    /\ args[1].downloadUrl # args[2].downloadUrl
    /\ args[1].filename # args[2].filename
    /\ ret[1] = ret[2]

\* an identity whose exam board and level are in lower case and whose
\* session holds no slash: the key builders leave its fields as they are
normalised(identity) ==
    /\ toLowerCase(identity.examBoard) = identity.examBoard
    /\ toLowerCase(identity.level) = identity.level
    /\ replaceSlashes(identity.session) = identity.session

\* holds: generateStorageKey and the key of ScraperStorageManager give two
\* normalised identities with different natural keys different storage keys
injectiveOnNormalisedIdentities ==
    (/\ fn \in {"generateStorageKey", "storePastPaper"} /\ returned
     /\ normalised(args[1]) /\ normalised(args[2])
     /\ naturalKeyOf(args[1]) # naturalKeyOf(args[2]))
        => ret[1] # ret[2]

\* holds: generateR2Key gives two identities of one exam board with levels
\* in lower case and different natural keys different storage keys
generateR2KeyInjectiveWithinBoard ==
    (/\ fn = "generateR2Key" /\ returned
     /\ args[1].examBoard = args[2].examBoard
     /\ toLowerCase(args[1].level) = args[1].level
     /\ toLowerCase(args[2].level) = args[2].level
     /\ naturalKeyOf(args[1]) # naturalKeyOf(args[2]))
        => ret[1] # ret[2]

\* C40 (does not hold): two identities that differ in exam board, level,
\* subject code, year, session, paper number or paper type get different
\* storage keys from each key builder.  The builders put exam board and
\* level in lower case, generateStorageKey turns a slash of the session into
\* a dash, and generateR2Key writes caie for every exam board
C40_StorageKeyInjectiveOnNaturalKeys ==
    (fn \in keyBuilders /\ returned /\ naturalKeyOf(args[1]) # naturalKeyOf(args[2]))
        => ret[1] # ret[2]

canonicalShape == args.below = <<>>

\* what the parser returns for a URL below one more directory: the values of
\* the path, and a warning for each value of the file name that differs
pathValuesWinBelowADirectory ==
    (fn = "parsePaperUrl" /\ returned /\ ~canonicalShape /\ args.type \in {QP, MS})
        => /\ ret.ok
           /\ ret.value.subjectCode = args.code /\ ret.value.year = args.year
           /\ ("subjectCode" \in ret.warnings) <=> (args.fileCode # args.code)
           /\ ("year" \in ret.warnings) <=> (<<"2", "0">> \o args.year2 # args.year)

\* C27: when the subject code or the two-digit year of the file name differs
\* from the path, parsing a canonical URL still succeeds and returns the
\* values of the path
C27_MismatchIsNotAnError ==
    (/\ fn = "parsePaperUrl" /\ returned /\ canonicalShape
     /\ args.type \in {QP, MS}
     /\ (args.fileCode # args.code \/ <<"2", "0">> \o args.year2 # args.year))
        => (ret.ok /\ ret.value.subjectCode = args.code /\ ret.value.year = args.year)

\* C28: /cie/IGCSE/Mathematics-0580/2024-March/0580_m24_qp_42.pdf parses to
\* Cambridge, IGCSE, Mathematics, 0580, 2024, March, 42, qp
C28_CanonicalExampleParses ==
    (/\ fn = "parsePaperUrl" /\ returned /\ canonicalShape
     /\ args.code = <<"0", "5", "8", "0">> /\ args.year = <<"2", "0", "2", "4">>
     /\ args.fileCode = <<"0", "5", "8", "0">> /\ args.year2 = <<"2", "4">>
     /\ args.sessionCode = <<"m">> /\ args.type = QP)
        => /\ ret.ok
           /\ ret.value = [examBoard |-> <<"C", "a", "m", "b", "r", "i", "d", "g", "e">>,
                           level |-> <<"I", "G", "C", "S", "E">>,
                           subject |-> <<"M", "a", "t", "h", "e", "m", "a", "t", "i", "c", "s">>,
                           subjectCode |-> <<"0", "5", "8", "0">>,
                           year |-> <<"2", "0", "2", "4">>,
                           session |-> <<"M", "a", "r", "c", "h">>,
                           paperNumber |-> <<"4", "2">>,
                           paperType |-> QP]

\* the same example below one more directory does parse to that record
exampleParsesBelowADirectory ==
    (/\ fn = "parsePaperUrl" /\ returned /\ ~canonicalShape
     /\ args.code = <<"0", "5", "8", "0">> /\ args.year = <<"2", "0", "2", "4">>
     /\ args.fileCode = <<"0", "5", "8", "0">> /\ args.year2 = <<"2", "4">>
     /\ args.sessionCode = <<"m">> /\ args.type = QP)
        => /\ ret.ok
           /\ ret.value.examBoard = <<"C", "a", "m", "b", "r", "i", "d", "g", "e">>
           /\ ret.value.level = <<"I", "G", "C", "S", "E">>
           /\ ret.value.subject = <<"M", "a", "t", "h", "e", "m", "a", "t", "i", "c", "s">>
           /\ ret.value.session = <<"M", "a", "r", "c", "h">>
           /\ ret.value.paperNumber = <<"4", "2">> /\ ret.value.paperType = QP

\* C29: the loop of scrapeSession pushes a candidate only for a file name of
\* four digits, letters and two digits, qp or ms, and digits; never for a
\* grade-threshold or examiner-report file
C29_OnlyQpMsFilenamesEmitted ==
    (fn = "scrapeSession" /\ returned /\ ret.emitted)
        => /\ Len(args.fileCode) = 4
           /\ args.sessionCode \in {<<"m">>, <<"s">>}
           /\ Len(args.year2) = 2
           /\ args.type \in {QP, MS}
           /\ args.number = <<"4", "2">>

\* a question paper of a session page was pushed
C29_Witness ==
    /\ fn = "scrapeSession" /\ returned /\ ret.emitted
    /\ args.type = QP

(***************************************************************************)
(* Pacing of the vectorizer requests: EmbeddingsService.waitForRateLimit   *)
(* and generateEmbeddingWithRetry under generateBatchEmbeddings, and the   *)
(* worker's WorkersEmbeddingService.generateEmbeddings.  The clock `now`   *)
(* counts whole seconds; a delay given in milliseconds resolves no earlier *)
(* than its whole seconds later, and at any later time.  The minute, the   *)
(* ceiling and the batch size are scaled down; the minute stays longer     *)
(* than maxRequestsPerMinute pauses of rateLimitDelay, so the pause alone  *)
(* does not keep the ceiling, and a batch stays below the ceiling.         *)
(***************************************************************************)
minuteMs == 6000
maxRequestsPerMinute == 3
batchSize == 2
MaxTexts == 4
MaxClock == 12

secondsOf(ms) == ms \div 1000

\* requestTimes.filter(time => time > oneMinuteAgo)
withinLastMinute(times, t) ==
    SelectSeq(times, LAMBDA time : time > t - secondsOf(minuteMs))

\* 60000 - (now - oldestRequest) + 100
waitTime(times, t) == secondsOf(minuteMs) - (t - times[1]) + secondsOf(100)

\* the back-off of generateEmbeddingWithRetry after a failed attempt
backoffDelay(error, attemptNo) ==
    IF error = "rateLimit" THEN secondsOf(5000 * 2 ^ (attemptNo - 1))
    ELSE IF attemptNo < maxRetries THEN secondsOf(1000 * attemptNo)
    ELSE 0

\* waitForRateLimit up to its first await: drop the old timestamps, and at
\* the ceiling wait for the oldest one to leave the minute
WaitForRateLimit ==
    /\ variant = "cli"
    /\ lpc = "attempt"
    /\ LET kept == withinLastMinute(requestTimes, now)
           full == Len(kept) >= maxRequestsPerMinute
       IN  /\ requestTimes' = kept
           /\ IF full /\ waitTime(kept, now) > 0
              THEN /\ lpc' = "limitWait"
                   /\ wakeAt' = now + waitTime(kept, now)
              ELSE /\ lpc' = "minDelay"
                   /\ wakeAt' = now + secondsOf(1000)
    /\ UNCHANGED <<issued, texts, lidx, tries, unanswered>>
    /\ UNCHANGED <<svars, ivars, pvars, exceptLimiter>>

\* the wait at the ceiling is over: the minimum delay follows, with no
\* second look at requestTimes
LimitWaitOver ==
    /\ lpc = "limitWait"
    /\ now >= wakeAt
    /\ lpc' = "minDelay"
    /\ wakeAt' = now + secondsOf(1000)
    /\ UNCHANGED <<requestTimes, issued, texts, lidx, tries, unanswered>>
    /\ UNCHANGED <<svars, ivars, pvars, exceptLimiter>>

\* requestTimes.push(Date.now()) and openai.embeddings.create
IssueRequest ==
    /\ lpc = "minDelay"
    /\ now >= wakeAt
    /\ requestTimes' = Append(requestTimes, now)
    /\ issued' = Append(issued, now)
    /\ lpc' = "inflight"
    /\ UNCHANGED <<texts, lidx, tries, wakeAt, unanswered>>
    /\ UNCHANGED <<svars, ivars, pvars, exceptLimiter>>

\* the vectorizer answers: an embedding ends the paper, an error backs off
Respond ==
    /\ lpc = "inflight"
    /\ \E answer \in {"ok", "rateLimit", "error"} :
          IF answer = "ok"
          THEN /\ lpc' = "itemDelay"
               /\ wakeAt' = now + secondsOf(100)
          ELSE /\ lpc' = "backoff"
               /\ wakeAt' = now + backoffDelay(answer, tries)
    /\ UNCHANGED <<requestTimes, issued, texts, lidx, tries, unanswered>>
    /\ UNCHANGED <<svars, ivars, pvars, exceptLimiter>>

\* after the back-off: the next attempt, or the paper fails after maxRetries
BackoffOver ==
    /\ lpc = "backoff"
    /\ now >= wakeAt
    /\ IF tries < maxRetries
       THEN /\ tries' = tries + 1
            /\ lpc' = "attempt"
            /\ UNCHANGED wakeAt
       ELSE /\ lpc' = "itemDelay"
            /\ wakeAt' = now + secondsOf(100)
            /\ UNCHANGED tries
    /\ UNCHANGED <<requestTimes, issued, texts, lidx, unanswered>>
    /\ UNCHANGED <<svars, ivars, pvars, exceptLimiter>>

\* generateBatchEmbeddings after a paper: the next paper of the batch, the
\* pause before the next batch, or the end
NextItem ==
    /\ lpc = "itemDelay"
    /\ now >= wakeAt
    /\ IF lidx % batchSize # 0 /\ lidx < texts
       THEN /\ lidx' = lidx + 1
            /\ tries' = 1
            /\ lpc' = "attempt"
            /\ UNCHANGED wakeAt
       ELSE IF lidx < texts
       THEN /\ lpc' = "batchDelay"
            /\ wakeAt' = now + secondsOf(2000)
            /\ UNCHANGED <<lidx, tries>>
       ELSE /\ lpc' = "done"
            /\ UNCHANGED <<lidx, tries, wakeAt>>
    /\ UNCHANGED <<requestTimes, issued, texts, unanswered>>
    /\ UNCHANGED <<svars, ivars, pvars, exceptLimiter>>

\* the first paper of the next batch
NextBatch ==
    /\ lpc = "batchDelay"
    /\ now >= wakeAt
    /\ lidx' = lidx + 1
    /\ tries' = 1
    /\ lpc' = "attempt"
    /\ UNCHANGED <<requestTimes, issued, texts, wakeAt, unanswered>>
    /\ UNCHANGED <<svars, ivars, pvars, exceptLimiter>>

\* the papers of the worker's batch that starts at paper i
embeddingBatch(i) ==
    i .. (IF i + batchSize - 1 < texts THEN i + batchSize - 1 ELSE texts)

\* worker: batch.map(generateEmbedding) sends every request of the batch
WorkerBatch ==
    /\ variant = "worker"
    /\ lpc = "batch"
    /\ issued' = issued \o [n \in 1..Cardinality(embeddingBatch(lidx)) |-> now]
    /\ unanswered' = Cardinality(embeddingBatch(lidx))
    /\ lpc' = "gather"
    /\ UNCHANGED <<requestTimes, texts, lidx, tries, wakeAt>>
    /\ UNCHANGED <<svars, ivars, pvars, exceptLimiter>>

\* worker: one request of the batch is answered, with an embedding or not
WorkerRespond ==
    /\ lpc = "gather"
    /\ unanswered > 0
    /\ unanswered' = unanswered - 1
    /\ UNCHANGED <<requestTimes, issued, lpc, texts, lidx, tries, wakeAt>>
    /\ UNCHANGED <<svars, ivars, pvars, exceptLimiter>>

\* worker: Promise.all resolved; one second before the next batch
WorkerGathered ==
    /\ lpc = "gather"
    /\ unanswered = 0
    /\ IF lidx + batchSize <= texts
       THEN /\ lpc' = "workerDelay"
            /\ wakeAt' = now + secondsOf(1000)
       ELSE /\ lpc' = "done"
            /\ UNCHANGED wakeAt
    /\ UNCHANGED <<requestTimes, issued, texts, lidx, tries, unanswered>>
    /\ UNCHANGED <<svars, ivars, pvars, exceptLimiter>>

\* worker: the next batch
WorkerNextBatch ==
    /\ lpc = "workerDelay"
    /\ now >= wakeAt
    /\ lidx' = lidx + batchSize
    /\ lpc' = "batch"
    /\ UNCHANGED <<requestTimes, issued, texts, tries, wakeAt, unanswered>>
    /\ UNCHANGED <<svars, ivars, pvars, exceptLimiter>>

\* a second passes
Elapse ==
    /\ lpc \notin {"idle", "done"}
    /\ now < MaxClock
    /\ now' = now + 1
    /\ UNCHANGED <<svars, ivars, pvars, exceptClock>>

LNext ==
    \/ WaitForRateLimit
    \/ LimitWaitOver
    \/ IssueRequest
    \/ Respond
    \/ BackoffOver
    \/ NextItem
    \/ NextBatch
    \/ WorkerBatch
    \/ WorkerRespond
    \/ WorkerGathered
    \/ WorkerNextBatch
    \/ Elapse

\* one embedding run over 1..MaxTexts papers, by either service
InitLimiter ==
    /\ scraper = "papa"
    /\ subjectUrl = [host |-> "elsewhere", seg |-> <<"lower", "lower", "digits">>]
    /\ dpc = "idle"
    /\ yearUrls = <<>>
    /\ yearIdx = 0
    /\ attempt = 0
    /\ pages = <<>>
    /\ allPapers = <<>>
    /\ requests = <<>>
    /\ failedYears = {}
    /\ waited = <<>>
    /\ derr = "none"
    /\ blob = {}
    /\ db = {}
    /\ papers = <<>>
    /\ skipIfExists = TRUE
    /\ concurrency = MaxConcurrency
    /\ ipc = "idle"
    /\ calls = 0
    /\ batchStart = 1
    /\ mpc = <<>>
    /\ attempts = <<>>
    /\ fetches = <<>>
    /\ lookup = <<>>
    /\ payload = <<>>
    /\ outcome = <<>>
    /\ results = <<>>
    /\ prevOk = {}
    /\ variant \in {"cli", "worker"}
    /\ ppc = "none"
    /\ runs = 0
    /\ site = <<>>
    /\ scraped = <<>>
    /\ queue = <<>>
    /\ pidx = 0
    /\ wresults = <<>>
    /\ embeddingResults = <<>>
    /\ dbResults = <<>>
    /\ stages = <<>>
    /\ jobStatus = "none"
    /\ downloads = [u \in PaperIds |-> 0]
    /\ stored = <<>>
    /\ items = <<>>
    /\ epc = "idle"
    /\ ebatchStart = 1
    /\ estate = <<>>
    /\ eattempts = <<>>
    /\ eout = <<>>
    /\ eresults = <<>>
    /\ vcalls = <<>>
    /\ now = 0
    /\ JOB_STATUS = <<>>
    /\ background = {}
    /\ posted = 0
    /\ responses = <<>>
    /\ progressFiles = <<>>
    /\ sessionId = 0
    /\ processedPapers = {}
    /\ submitted = <<>>
    /\ interrupted = <<>>
    /\ fn = "none"
    /\ args = <<>>
    /\ returned = FALSE
    /\ ret = <<>>
    /\ requestTimes = <<>>
    /\ issued = <<>>
    /\ lpc = IF variant = "cli" THEN "attempt" ELSE "batch"
    /\ texts \in 1..MaxTexts
    /\ lidx = 1
    /\ tries = 1
    /\ wakeAt = 0
    /\ unanswered = 0
    /\ rattempt = 0
    /\ waits = <<>>
    /\ caught = {}
    /\ unrecorded = {}

SpecLimiter == InitLimiter /\ [][LNext]_vars

(***************************************************************************)
(* Properties of the pacing.                                               *)
(***************************************************************************)
\* the requests the vectorizer received in the minute that ends with request i
inMinuteBefore(i) ==
    { j \in 1..Len(issued) :
        issued[j] > issued[i] - secondsOf(minuteMs) /\ issued[j] <= issued[i] }

\* EmbeddingsService keeps the ceiling: no minute holds more than
\* maxRequestsPerMinute of its requests, retries included
cliKeepsCeiling ==
    variant = "cli" =>
        \A i \in 1..Len(issued) :
            Cardinality(inMinuteBefore(i)) <= maxRequestsPerMinute

\* EmbeddingsService at the ceiling: a request sent after the wait
cliWaitedAtCeiling ==
    /\ variant = "cli"
    /\ Len(issued) > maxRequestsPerMinute
    /\ \E i \in 1..Len(issued) : i > 1 /\ issued[i] - issued[i - 1] > secondsOf(1000)

\* C30: in any minute the enrichment stage sends at most
\* maxRequestsPerMinute requests to the vectorizer, retries included
C30_AtMostCeilingRequestsPerMinute ==
    \A i \in 1..Len(issued) :
        Cardinality(inMinuteBefore(i)) <= maxRequestsPerMinute

(***************************************************************************)
(* Properties of the pause between year folders.                           *)
(***************************************************************************)
\* the folders requested before request k, other than the folder of request k
finishedBefore(k) ==
    { requests[h] : h \in 1..(k - 1) } \ {0, requests[k]}

\* after a folder whose page was fetched, delay(delayMs) comes before the
\* request of the next folder
delayAfterFetchedFolder ==
    \A k \in 1..Len(requests) :
        requests[k] # 0 =>
            \A i \in finishedBefore(k) \ failedYears : i \in Range(waited)

\* C31: after each year folder, fetched or failed, the discoverer waits the
\* inter-request delay before it requests the next year folder
C31_DelayAfterEveryYearFolder ==
    \A k \in 1..Len(requests) :
        requests[k] # 0 =>
            \A i \in finishedBefore(k) : i \in Range(waited)

(***************************************************************************)
(* Retry loops: PdfStorageService.retryOperation (PDF download), the two   *)
(* fetchWithRetry of the first site's scrapers and fetchWithHttp of the    *)
(* second site's.  fn is the loop, args its configuration, ret the last    *)
(* error, waits the delays awaited between the attempts.                   *)
(***************************************************************************)
MaxRetryLimit == 5

retryLoops == {"retryOperation", "fetchWithRetry", "fetchWithHttp"}

\* configurations: maxRetries, and delayMs of the second site's scraper
RetryConfigs == [maxRetries : 1..MaxRetryLimit, delayMs : {1000, 8000}]

\* the wait after failed attempt n: attempt * 1000 in retryOperation and
\* fetchWithRetry, delayMs * 2^(attempt - 1) in fetchWithHttp
retryDelay(loop, config, n) ==
    IF loop = "fetchWithHttp" THEN config.delayMs * 2 ^ (n - 1)
    ELSE n * 1000

\* what a step of a retry loop leaves alone
nonRetry ==
    <<dvars, svars, ivars, pvars, evars, clockVars, apiVars, progressVars,
      limiterVars, jobVars>>

\* an attempt throws: wait and try again while attempts are left, else the
\* loop ends and the last error is thrown
AttemptFails ==
    /\ fn \in retryLoops
    /\ ~returned
    /\ \E error \in {"network", "http5xx"} :
          ret' = [ok |-> FALSE, error |-> error]
    /\ IF rattempt < args.maxRetries
       THEN /\ waits' = Append(waits, retryDelay(fn, args, rattempt))
            /\ rattempt' = rattempt + 1
            /\ UNCHANGED returned
       ELSE /\ returned' = TRUE
            /\ UNCHANGED <<rattempt, waits>>
    /\ UNCHANGED <<fn, args>>
    /\ UNCHANGED nonRetry

\* an attempt succeeds: the loop returns its value
AttemptSucceeds ==
    /\ fn \in retryLoops
    /\ ~returned
    /\ returned' = TRUE
    /\ ret' = [ok |-> TRUE, error |-> "none"]
    /\ UNCHANGED <<fn, args, rattempt, waits>>
    /\ UNCHANGED nonRetry

TNext ==
    \/ AttemptFails
    \/ AttemptSucceeds

\* one call of a retry loop under one configuration
InitRetry ==
    /\ scraper = "papa"
    /\ subjectUrl = [host |-> "elsewhere", seg |-> <<"lower", "lower", "digits">>]
    /\ dpc = "idle"
    /\ yearUrls = <<>>
    /\ yearIdx = 0
    /\ attempt = 0
    /\ pages = <<>>
    /\ allPapers = <<>>
    /\ requests = <<>>
    /\ failedYears = {}
    /\ waited = <<>>
    /\ derr = "none"
    /\ blob = {}
    /\ db = {}
    /\ papers = <<>>
    /\ skipIfExists = TRUE
    /\ concurrency = MaxConcurrency
    /\ ipc = "idle"
    /\ calls = 0
    /\ batchStart = 1
    /\ mpc = <<>>
    /\ attempts = <<>>
    /\ fetches = <<>>
    /\ lookup = <<>>
    /\ payload = <<>>
    /\ outcome = <<>>
    /\ results = <<>>
    /\ prevOk = {}
    /\ variant = "none"
    /\ ppc = "none"
    /\ runs = 0
    /\ site = <<>>
    /\ scraped = <<>>
    /\ queue = <<>>
    /\ pidx = 0
    /\ wresults = <<>>
    /\ embeddingResults = <<>>
    /\ dbResults = <<>>
    /\ stages = <<>>
    /\ jobStatus = "none"
    /\ downloads = [u \in PaperIds |-> 0]
    /\ stored = <<>>
    /\ items = <<>>
    /\ epc = "idle"
    /\ ebatchStart = 1
    /\ estate = <<>>
    /\ eattempts = <<>>
    /\ eout = <<>>
    /\ eresults = <<>>
    /\ vcalls = <<>>
    /\ now = 0
    /\ JOB_STATUS = <<>>
    /\ background = {}
    /\ posted = 0
    /\ responses = <<>>
    /\ progressFiles = <<>>
    /\ sessionId = 0
    /\ processedPapers = {}
    /\ submitted = <<>>
    /\ interrupted = <<>>
    /\ fn \in retryLoops
    /\ args \in RetryConfigs
    /\ returned = FALSE
    /\ ret = <<>>
    /\ requestTimes = <<>>
    /\ issued = <<>>
    /\ lpc = "idle"
    /\ texts = 0
    /\ lidx = 0
    /\ tries = 0
    /\ wakeAt = 0
    /\ unanswered = 0
    /\ rattempt = 1
    /\ waits = <<>>
    /\ caught = {}
    /\ unrecorded = {}

SpecRetry == InitRetry /\ [][TNext]_vars

(***************************************************************************)
(* Properties of the retry loops.                                          *)
(***************************************************************************)
\* each wait is twice the wait before it
waitsDouble == \A i \in 2..Len(waits) : waits[i] = 2 * waits[i - 1]

\* no retry loop makes more than maxRetries attempts
attemptsNeverExceedMaximum ==
    fn \in retryLoops => rattempt <= args.maxRetries /\ Len(waits) < args.maxRetries

\* with the default of three attempts the two waits are 1000 and 2000 ms
defaultWaitsDouble ==
    fn \in retryLoops /\ args.maxRetries <= pdfMaxRetries => waitsDouble

\* the page fetches of the second site double their wait
fetchWithHttpDoubles == fn = "fetchWithHttp" => waitsDouble

\* C32: download retries back off exponentially, each wait twice the one
\* before, and never make more attempts than the configured maximum
C32_RetriesBackOffExponentially ==
    fn \in {"retryOperation", "fetchWithRetry"} =>
        /\ waitsDouble
        /\ rattempt <= args.maxRetries

(***************************************************************************)
(* insertPaper on a table with every column: DatabaseService.insertPaper   *)
(* and WorkersDatabaseService.insertPaper, called for papers whose blob is *)
(* stored.  dbResults records each call with its paper, the vector it was  *)
(* given and its time.                                                     *)
(***************************************************************************)
MaxInserts == 2

InsertResult(status, lookedUp, u, vec, t) ==
    [status |-> status, lookup |-> lookedUp, paper |-> u, key |-> naturalKey(u),
     vector |-> vec, at |-> t]

\* what findPaper / paperExists saw: both catch a store error and answer
\* "not there"
lookupOf(fault, u) ==
    IF fault THEN "error" ELSE IF naturalKey(u) \in dbKeys THEN "present" ELSE "absent"

\* the model name stored with a row
modelOf(vec) == IF vec = NoVector THEN "none" ELSE "text-embedding-3-small"

\* the row insertPaper writes: createdAt and lastUpdated default to now()
insertedRow(d, v, u, vec, updated, t) ==
    PaperRow(Cardinality(d) + 1, u,
             IF rowHasVector(v, vec, updated) THEN vec ELSE NoVector,
             modelOf(vec), t, t)

\* one insertPaper call
InsertPaper ==
    /\ ppc = "insert"
    /\ pidx <= MaxInserts
    /\ \E u \in PaperIds, vec \in Vectors \cup {NoVector}, lookupFault \in BOOLEAN,
          insertFault \in BOOLEAN, updated \in BOOLEAN, t \in {now, now + 1} :
         /\ now' = t
         /\ IF lookupFinds(lookupFault, u)
            THEN /\ dbResults' = Append(dbResults,
                        InsertResult("skipped", lookupOf(lookupFault, u), u, vec, t))
                 /\ db' = dbAfterSkip(db, u)
            ELSE IF vectorRejected(variant, vec) \/ insertFault
            THEN /\ dbResults' = Append(dbResults,
                        InsertResult("failed", lookupOf(lookupFault, u), u, vec, t))
                 /\ db' = db
            ELSE /\ dbResults' = Append(dbResults,
                        InsertResult("inserted", lookupOf(lookupFault, u), u, vec, t))
                 /\ db' = db \cup {insertedRow(db, variant, u, vec, updated, t)}
    /\ pidx' = pidx + 1
    /\ UNCHANGED <<variant, ppc, runs, site, scraped, queue, wresults, embeddingResults,
                   stages, jobStatus, downloads>>
    /\ UNCHANGED <<blob, ivars, exceptClock>>

\* up to MaxInserts insertPaper calls on a table earlier runs left behind
InitInsert ==
    /\ scraper = "papa"
    /\ subjectUrl = [host |-> "elsewhere", seg |-> <<"lower", "lower", "digits">>]
    /\ dpc = "idle"
    /\ yearUrls = <<>>
    /\ yearIdx = 0
    /\ attempt = 0
    /\ pages = <<>>
    /\ allPapers = <<>>
    /\ requests = <<>>
    /\ failedYears = {}
    /\ waited = <<>>
    /\ derr = "none"
    /\ blob = {}
    /\ db \in StoredTables
    /\ papers = <<>>
    /\ skipIfExists = TRUE
    /\ concurrency = MaxConcurrency
    /\ ipc = "idle"
    /\ calls = 0
    /\ batchStart = 1
    /\ mpc = <<>>
    /\ attempts = <<>>
    /\ fetches = <<>>
    /\ lookup = <<>>
    /\ payload = <<>>
    /\ outcome = <<>>
    /\ results = <<>>
    /\ prevOk = {}
    /\ variant \in {"cli", "worker"}
    /\ ppc = "insert"
    /\ runs = 0
    /\ site = <<>>
    /\ scraped = <<>>
    /\ queue = <<>>
    /\ pidx = 1
    /\ wresults = <<>>
    /\ embeddingResults = <<>>
    /\ dbResults = <<>>
    /\ stages = <<>>
    /\ jobStatus = "none"
    /\ downloads = [u \in PaperIds |-> 0]
    /\ stored = <<>>
    /\ items = <<>>
    /\ epc = "idle"
    /\ ebatchStart = 1
    /\ estate = <<>>
    /\ eattempts = <<>>
    /\ eout = <<>>
    /\ eresults = <<>>
    /\ vcalls = <<>>
    /\ now = 1
    /\ JOB_STATUS = <<>>
    /\ background = {}
    /\ posted = 0
    /\ responses = <<>>
    /\ progressFiles = <<>>
    /\ sessionId = 0
    /\ processedPapers = {}
    /\ submitted = <<>>
    /\ interrupted = <<>>
    /\ fn = "none"
    /\ args = <<>>
    /\ returned = FALSE
    /\ ret = <<>>
    /\ requestTimes = <<>>
    /\ issued = <<>>
    /\ lpc = "idle"
    /\ texts = 0
    /\ lidx = 0
    /\ tries = 0
    /\ wakeAt = 0
    /\ unanswered = 0
    /\ rattempt = 0
    /\ waits = <<>>
    /\ caught = {}
    /\ unrecorded = {}

SpecInsert == InitInsert /\ [][InsertPaper]_vars

(***************************************************************************)
(* Properties of insertPaper.                                              *)
(***************************************************************************)
\* the rows of a natural key
rowsOf(key) == { r \in db : r.key = key }

\* a re-insert attempt leaves every column of the found record as it was
reinsertLeavesRecordAlone ==
    [][\A n \in 1..Len(dbResults') :
          n > Len(dbResults) /\ dbResults'[n].status = "skipped"
              => { r \in db' : r.key = dbResults'[n].key }
                   = { r \in db : r.key = dbResults'[n].key }]_vars

\* C33: a re-insert attempt for a natural key that is in the record store
\* sets the lastUpdated of the existing record to the time of the attempt
C33_ReinsertTouchesLastUpdated ==
    \A n \in 1..Len(dbResults) :
        dbResults[n].status = "skipped" =>
            \E r \in rowsOf(dbResults[n].key) : r.lastUpdated >= dbResults[n].at

(***************************************************************************)
(* Properties of a re-run over stores an earlier run left behind.          *)
(***************************************************************************)
\* no insert of the run in hand failed in the record store
noInsertFailed ==
    \A n \in 1..Len(dbResults) :
        ~(dbResults[n].status = "failed" /\ dbResults[n].attempted)

\* candidates of the run in hand whose blob an earlier run stored: the blob
\* is there and this run has not downloaded it
storedEarlier(u) == r2Key(u) \in blob /\ downloads[u] = 0

\* C34: a re-run over a candidate whose blob is stored but whose record is
\* missing creates the record
C34_RerunCreatesMissingRecord ==
    (ppc = "completed" /\ runs >= 2 /\ noInsertFailed) =>
        \A u \in Range(scraped) : storedEarlier(u) => naturalKey(u) \in dbKeys

(***************************************************************************)
(* Properties of candidates that share a natural key within one call.      *)
(***************************************************************************)
\* members of the call in hand with one natural key, both downloaded and
\* written to the blob store
storedTwice(a, b) ==
    /\ a < b
    /\ naturalKey(papers[a]) = naturalKey(papers[b])
    /\ outcome[a] = Stored
    /\ outcome[b] = Stored

\* the batch of the loop of batchStorePdfs a member falls in
batchNo(k) == (k - 1) \div concurrency

\* two candidates of one natural key in different batches: the later one
\* finds the blob of the earlier one
storedOnceAcrossBatches ==
    skipIfExists =>
        \A a, b \in members : batchNo(a) # batchNo(b) => ~storedTwice(a, b)

\* C35: of two candidates of one call with the same natural key at most one
\* is downloaded and written to the blob store, in one batch or in two
C35_SameKeyIsStoredOnce ==
    skipIfExists => \A a, b \in members : ~storedTwice(a, b)

(***************************************************************************)
(* Properties of a failed existence lookup.                                *)
(***************************************************************************)
\* storePdf of the CLI: a failed hasPastPaper fails the candidate, and
\* nothing is downloaded for it
blobLookupErrorFailsCandidate ==
    \A k \in members :
        lookup[k] = "error" => fetches[k] = 0 /\ outcome[k] = Failure("lookup")

\* C36: an insertPaper call whose existence lookup failed with a store error
\* reports failure and inserts nothing
C36_FailedLookupIsFailure ==
    \A n \in 1..Len(dbResults) :
        dbResults[n].lookup = "error" => dbResults[n].status = "failed"

(***************************************************************************)
(* The job worker's background job: processScrapeJob and updateJobStatus.  *)
(* A write to the JOB_STATUS store can throw, like every other step of the *)
(* job.                                                                    *)
(***************************************************************************)
terminalStatus == {"completed", "failed"}

\* what a step of a job leaves alone
nonJob ==
    <<dvars, svars, ivars, pvars, evars, clockVars, progressVars, callVars,
      limiterVars, retryVars, posted, responses>>

\* the try block of processScrapeJob: updateJobStatus writes "processing"
\* with the progress, the last write is "completed"; scrapePapers or an
\* updateJobStatus that throws takes the job to the catch block
JobTry(j) ==
    /\ variant = "job"
    /\ j \in background \ caught
    /\ \E step \in {"progress", "complete", "throw"} :
         IF step = "progress"
         THEN /\ JOB_STATUS' = [JOB_STATUS EXCEPT ![j] = "processing"]
              /\ UNCHANGED <<background, caught>>
         ELSE IF step = "complete" /\ JOB_STATUS[j] = "processing"
         THEN /\ JOB_STATUS' = [JOB_STATUS EXCEPT ![j] = "completed"]
              /\ background' = background \ {j}
              /\ UNCHANGED caught
         ELSE /\ caught' = caught \cup {j}
              /\ UNCHANGED <<JOB_STATUS, background>>
    /\ UNCHANGED unrecorded
    /\ UNCHANGED nonJob

\* the catch block: updateJobStatus writes "failed"; when that write throws
\* the promise of processScrapeJob rejects and the status stays as it was
JobCatch(j) ==
    /\ j \in caught
    /\ \E written \in BOOLEAN :
         IF written
         THEN /\ JOB_STATUS' = [JOB_STATUS EXCEPT ![j] = "failed"]
              /\ UNCHANGED unrecorded
         ELSE /\ unrecorded' = unrecorded \cup {j}
              /\ UNCHANGED JOB_STATUS
    /\ caught' = caught \ {j}
    /\ background' = background \ {j}
    /\ UNCHANGED nonJob

JNext ==
    \/ handleScrapeRequest
    \/ \E j \in 1..MaxRequests : JobTry(j)
    \/ \E j \in 1..MaxRequests : JobCatch(j)

\* requests to the deployed job worker
InitJob ==
    /\ scraper = "papa"
    /\ subjectUrl = [host |-> "elsewhere", seg |-> <<"lower", "lower", "digits">>]
    /\ dpc = "idle"
    /\ yearUrls = <<>>
    /\ yearIdx = 0
    /\ attempt = 0
    /\ pages = <<>>
    /\ allPapers = <<>>
    /\ requests = <<>>
    /\ failedYears = {}
    /\ waited = <<>>
    /\ derr = "none"
    /\ blob = {}
    /\ db = {}
    /\ papers = <<>>
    /\ skipIfExists = TRUE
    /\ concurrency = MaxConcurrency
    /\ ipc = "idle"
    /\ calls = 0
    /\ batchStart = 1
    /\ mpc = <<>>
    /\ attempts = <<>>
    /\ fetches = <<>>
    /\ lookup = <<>>
    /\ payload = <<>>
    /\ outcome = <<>>
    /\ results = <<>>
    /\ prevOk = {}
    /\ variant = "job"
    /\ ppc = "none"
    /\ runs = 0
    /\ site = <<>>
    /\ scraped = <<>>
    /\ queue = <<>>
    /\ pidx = 0
    /\ wresults = <<>>
    /\ embeddingResults = <<>>
    /\ dbResults = <<>>
    /\ stages = <<>>
    /\ jobStatus = "none"
    /\ downloads = [u \in PaperIds |-> 0]
    /\ stored = <<>>
    /\ items = <<>>
    /\ epc = "idle"
    /\ ebatchStart = 1
    /\ estate = <<>>
    /\ eattempts = <<>>
    /\ eout = <<>>
    /\ eresults = <<>>
    /\ vcalls = <<>>
    /\ now = 0
    /\ JOB_STATUS = <<>>
    /\ background = {}
    /\ posted = 0
    /\ responses = <<>>
    /\ progressFiles = <<>>
    /\ sessionId = 0
    /\ processedPapers = {}
    /\ submitted = <<>>
    /\ interrupted = <<>>
    /\ fn = "none"
    /\ args = <<>>
    /\ returned = FALSE
    /\ ret = <<>>
    /\ requestTimes = <<>>
    /\ issued = <<>>
    /\ lpc = "idle"
    /\ texts = 0
    /\ lidx = 0
    /\ tries = 0
    /\ wakeAt = 0
    /\ unanswered = 0
    /\ rattempt = 0
    /\ waits = <<>>
    /\ caught = {}
    /\ unrecorded = {}

\* ctx.waitUntil keeps every accepted job running until its promise settles
JobFairness ==
    \A j \in 1..MaxRequests : WF_vars(JobTry(j)) /\ WF_vars(JobCatch(j))

SpecJob == InitJob /\ [][JNext]_vars /\ JobFairness

(***************************************************************************)
(* Properties of the job status.                                           *)
(***************************************************************************)
accepted(j) == j \in DOMAIN JOB_STATUS

finished(j) == accepted(j) /\ JOB_STATUS[j] \in terminalStatus

\* the status of a job is one of the four values of the interface
statusIsOneOfFour ==
    \A j \in DOMAIN JOB_STATUS :
        JOB_STATUS[j] \in {"queued", "processing"} \cup terminalStatus

\* a job that is completed or failed keeps its status
terminalStatusIsKept ==
    [][\A j \in DOMAIN JOB_STATUS :
          JOB_STATUS[j] \in terminalStatus => JOB_STATUS'[j] = JOB_STATUS[j]]_vars

\* every accepted job ends completed or failed unless the write of "failed"
\* threw
finishesUnlessWriteThrew ==
    \A j \in 1..MaxRequests : accepted(j) ~> (finished(j) \/ j \in unrecorded)

\* C37: every accepted job eventually is completed or failed, and a job that
\* is completed or failed never changes its status again
C37_JobEndsInTerminalStatus ==
    /\ \A j \in 1..MaxRequests : accepted(j) ~> finished(j)
    /\ [][\A j \in DOMAIN JOB_STATUS :
            JOB_STATUS[j] \in terminalStatus => JOB_STATUS'[j] = JOB_STATUS[j]]_vars

=============================================================================
